---------------------------- MODULE Spec2Model ----------------------------
(***************************************************************************)
(* Verification model of the zkm proving core:                             *)
(*   - the helper-column/logUp cross-table lookup (CTL) engine             *)
(*     (prover/src/cross_table_lookup.rs) and the older grand-product      *)
(*     engine (src/cross_table_lookup.rs);                                 *)
(*   - the per-table shrinking chains and the proof composition pipeline   *)
(*     (prover/src/fixed_recursive_verifier.rs).                           *)
(* Field arithmetic is carried out in a prime field whose modulus is       *)
(* scaled down to a small prime; table, row and list sizes are bounded.    *)
(***************************************************************************)
EXTENDS Integers, Sequences, FiniteSets, TLC

VARIABLES
    pc,                   \* which step of the scenario at hand was taken last
    cross_table_lookups,  \* the list of CrossTableLookup
    num_challenges,       \* config.num_challenges
    ctl_zs_first,         \* first-row Z openings of every table
    verify_result,        \* what verify_cross_table_lookups returned
    trace_poly_values,    \* the trace of every table
    ctl_challenges,       \* the GrandProductChallengeSet
    ctl_data,             \* what cross_table_lookup_data returned
    ps_trace,             \* partial_sums: the trace of the table
    ps_columns_filters,   \* partial_sums: the (columns, filter) pairs
    ps_challenge,         \* partial_sums: the challenge
    ps_helper_columns,    \* what get_helper_cols returned inside partial_sums
    ps_result,            \* what partial_sums returned
    ps_checks,            \* the constraints evaluated on every row
    chk_traces,           \* check_ctls: the trace of every table
    chk_ctls,             \* check_ctls: the list of CrossTableLookup
    chk_result,           \* what check_ctls did (logUp engine)
    chk_result_old,       \* what check_ctls did (grand-product engine)
    ev_vars,              \* ctl_vars: the list of CtlCheckVars
    ev_local,             \* the frame's local values
    ev_next,              \* the frame's next values
    ev_degree,            \* constraint_degree
    ev_native,            \* what eval_cross_table_lookup_checks emitted
    ev_circuit,           \* what eval_cross_table_lookup_checks_circuit emitted
    chain_table,          \* the table whose circuits are preprocessed
    degree_bits_range,    \* its range of sizes, <<start, end>>
    degree_bits,          \* the size whose chain is under construction
    initial_wrapper,      \* the initial wrapper of that chain
    shrinking_wrappers,   \* the shrinking wrappers pushed so far
    circuit,              \* the shrinking circuit just built, not yet pushed
    builds,               \* shrinking circuits built for that chain so far
    collected,            \* the chains finished so far, by size
    by_stark_size,        \* RecursiveCircuitsForTable::by_stark_size
    root_size,            \* prove_root: the size recovered from the proof
    root_result,          \* prove_root: what the lookup of the chain gave
    possible_vks,         \* create_root_circuit: the table's padded list of keys
    lhs_is_agg,           \* prove_aggregation: whether the left child is an aggregation proof
    lhs_receipt,          \* prove_aggregation: the left child
    rhs_is_agg,           \* prove_aggregation: whether the right child is an aggregation proof
    rhs_receipt,          \* prove_aggregation: the right child
    agg_inputs,           \* the witness prove_aggregation assigned
    agg_result,           \* what prove_aggregation returned
    agg_root_receipts,    \* the aggregation receipts folded into blocks so far
    block_receipts,       \* the block receipts produced so far
    block_inputs,         \* the witness the last prove_block assigned
    block_result,         \* what the last prove_block returned
    root_pis,             \* root circuit: the PublicInputs of every table's recursive proof
    root_public_values,   \* root circuit: the values of the public-value targets
    root_num_challenges,  \* stark_config.num_challenges
    root_accepted,        \* whether the root circuit accepts that witness
    ser_bytes,            \* to_bytes: the buffer written
    ser_restored,         \* from_bytes: the circuits read back
    new_looking_tables,   \* CrossTableLookup::new: the looking tables
    new_looked_table,     \* CrossTableLookup::new: the looked table
    new_result,           \* what CrossTableLookup::new did (logUp engine)
    new_result_old,       \* what CrossTableLookup::new did (grand-product engine)
    sha_op,               \* the ShaExtendSpongeOp handed to generate_rows_for_op
    sha_row,              \* the ShaExtendSpongeColumnsView it returns
    et_trace,             \* eval_table: the table, column-major
    et_column,            \* eval_table: the Column evaluated
    et_filter,            \* eval_table: the Filter evaluated
    et_row,               \* eval_table: the row
    et_result,            \* eval_table: which function ran and what it returned
    et_rows_read,         \* eval_table: the row indices of the table it indexed
    lay_ctls,             \* layout: the cross-table lookups
    lay_challenges,       \* layout: ctl_challenges.challenges
    lay_num_lookup_columns,\* layout: the number of range-check lookup columns before the CTL columns
    lay_data,             \* layout: what cross_table_lookup_data returned
    lay_counts,           \* layout: num_ctl_helpers_zs_all of every table
    lay_by_table,         \* layout: what num_ctl_helper_columns_by_table returned
    lay_vars,             \* layout: what CtlCheckVars::from_proofs returned
    lay_targets,          \* layout: what CtlCheckVarsTarget::from_proof returned for every table
    vc_ctls,              \* circuit verifier: the cross-table lookups
    vc_num_challenges,    \* circuit verifier: inner_config.num_challenges
    vc_wires,             \* circuit verifier: ctl_zs_first, the first-row Z targets of every table
    vc_values,            \* circuit verifier: the value assigned to every such target
    vc_native,            \* circuit verifier: what verify_cross_table_lookups returned on the values
    vc_constraints,       \* circuit verifier: the connections verify_cross_table_lookups_circuit added
    vb_receipt,           \* verify_block: the block receipt handed in
    vb_result,            \* verify_block: what it returned
    vb_log,               \* verify_block: the unresolved assumptions it logged
    assoc_a,              \* associativity: the first root receipt
    assoc_b,              \* associativity: the second root receipt
    assoc_c,              \* associativity: the third root receipt
    assoc_left_first,     \* associativity: what aggregating (a, b) and then c returned
    assoc_right_first,    \* associativity: what aggregating (b, c) and then a with it returned
    evo_vars,             \* grand-product engine: the CtlCheckVars of a table
    evo_local,            \* grand-product engine: the local row of the frame
    evo_next,             \* grand-product engine: the next row of the frame
    evo_native,           \* grand-product engine: the constraints eval_cross_table_lookup_checks emitted
    evo_circuit,          \* grand-product engine: the constraints eval_cross_table_lookup_checks_circuit emitted
    lb_cs,                \* le_bytes: the column indices handed in
    lb_trace,             \* le_bytes: the table, column-major
    lb_row,               \* le_bytes: the row the column is evaluated at
    lb_column,            \* le_bytes: the Column the logUp engine built, and its value on the row
    lb_column_old         \* le_bytes: the Column the grand-product engine built, and its value on the row

vars_ctl == <<cross_table_lookups, num_challenges, ctl_zs_first, verify_result,
              trace_poly_values, ctl_challenges, ctl_data>>

vars_ps == <<ps_trace, ps_columns_filters, ps_challenge, ps_helper_columns, ps_result, ps_checks>>

vars_chk == <<chk_traces, chk_ctls, chk_result, chk_result_old>>

vars_ev == <<ev_vars, ev_local, ev_next, ev_degree, ev_native, ev_circuit>>

vars_chain == <<chain_table, degree_bits_range, degree_bits, initial_wrapper,
                shrinking_wrappers, circuit, builds, collected, by_stark_size,
                root_size, root_result, possible_vks>>

vars_agg == <<lhs_is_agg, lhs_receipt, rhs_is_agg, rhs_receipt, agg_inputs, agg_result>>

vars_block == <<agg_root_receipts, block_receipts, block_inputs, block_result>>

vars_rootc == <<root_pis, root_public_values, root_num_challenges, root_accepted>>

vars_ser == <<ser_bytes, ser_restored>>

vars_newctl == <<new_looking_tables, new_looked_table, new_result, new_result_old>>

vars_sha == <<sha_op, sha_row>>

vars_et == <<et_trace, et_column, et_filter, et_row, et_result, et_rows_read>>

vars_lay == <<lay_ctls, lay_challenges, lay_num_lookup_columns, lay_data, lay_counts, lay_by_table, lay_vars, lay_targets>>

vars_vc == <<vc_ctls, vc_num_challenges, vc_wires, vc_values, vc_native, vc_constraints>>

vars_vb == <<vb_receipt, vb_result, vb_log>>

vars_assoc == <<assoc_a, assoc_b, assoc_c, assoc_left_first, assoc_right_first>>

vars_evo == <<evo_vars, evo_local, evo_next, evo_native, evo_circuit>>

vars_lb == <<lb_cs, lb_trace, lb_row, lb_column, lb_column_old>>

vars == <<pc, vars_ctl, vars_ps, vars_chk, vars_ev, vars_chain, vars_agg, vars_block, vars_rootc, vars_ser, vars_newctl, vars_sha, vars_et, vars_lay, vars_vc, vars_vb, vars_assoc, vars_evo, vars_lb>>

\* What a scenario leaves alone: the variables of the other scenarios.
vars_not_ctl == <<vars_ps, vars_chk, vars_ev, vars_chain, vars_agg, vars_block, vars_rootc, vars_ser, vars_newctl, vars_sha, vars_et, vars_lay, vars_vc, vars_vb, vars_assoc, vars_evo, vars_lb>>

vars_not_ps == <<vars_ctl, vars_chk, vars_ev, vars_chain, vars_agg, vars_block, vars_rootc, vars_ser, vars_newctl, vars_sha, vars_et, vars_lay, vars_vc, vars_vb, vars_assoc, vars_evo, vars_lb>>

vars_not_chk == <<vars_ctl, vars_ps, vars_ev, vars_chain, vars_agg, vars_block, vars_rootc, vars_ser, vars_newctl, vars_sha, vars_et, vars_lay, vars_vc, vars_vb, vars_assoc, vars_evo, vars_lb>>

vars_not_ev == <<vars_ctl, vars_ps, vars_chk, vars_chain, vars_agg, vars_block, vars_rootc, vars_ser, vars_newctl, vars_sha, vars_et, vars_lay, vars_vc, vars_vb, vars_assoc, vars_evo, vars_lb>>

vars_not_chain == <<vars_ctl, vars_ps, vars_chk, vars_ev, vars_agg, vars_block, vars_rootc, vars_ser, vars_newctl, vars_sha, vars_et, vars_lay, vars_vc, vars_vb, vars_assoc, vars_evo, vars_lb>>

vars_not_agg == <<vars_ctl, vars_ps, vars_chk, vars_ev, vars_chain, vars_block, vars_rootc, vars_ser, vars_newctl, vars_sha, vars_et, vars_lay, vars_vc, vars_vb, vars_assoc, vars_evo, vars_lb>>

vars_not_block == <<vars_ctl, vars_ps, vars_chk, vars_ev, vars_chain, vars_agg, vars_rootc, vars_ser, vars_newctl, vars_sha, vars_et, vars_lay, vars_vc, vars_vb, vars_assoc, vars_evo, vars_lb>>

vars_not_rootc == <<vars_ctl, vars_ps, vars_chk, vars_ev, vars_chain, vars_agg, vars_block, vars_ser, vars_newctl, vars_sha, vars_et, vars_lay, vars_vc, vars_vb, vars_assoc, vars_evo, vars_lb>>

vars_not_ser == <<vars_ctl, vars_ps, vars_chk, vars_ev, vars_chain, vars_agg, vars_block, vars_rootc, vars_newctl, vars_sha, vars_et, vars_lay, vars_vc, vars_vb, vars_assoc, vars_evo, vars_lb>>

vars_not_newctl == <<vars_ctl, vars_ps, vars_chk, vars_ev, vars_chain, vars_agg, vars_block, vars_rootc, vars_ser, vars_sha, vars_et, vars_lay, vars_vc, vars_vb, vars_assoc, vars_evo, vars_lb>>

vars_not_sha == <<vars_ctl, vars_ps, vars_chk, vars_ev, vars_chain, vars_agg, vars_block, vars_rootc, vars_ser, vars_newctl, vars_et, vars_lay, vars_vc, vars_vb, vars_assoc, vars_evo, vars_lb>>

vars_not_et == <<vars_ctl, vars_ps, vars_chk, vars_ev, vars_chain, vars_agg, vars_block, vars_rootc, vars_ser, vars_newctl, vars_sha, vars_lay, vars_vc, vars_vb, vars_assoc, vars_evo, vars_lb>>

vars_not_lay == <<vars_ctl, vars_ps, vars_chk, vars_ev, vars_chain, vars_agg, vars_block, vars_rootc, vars_ser, vars_newctl, vars_sha, vars_et, vars_vc, vars_vb, vars_assoc, vars_evo, vars_lb>>

vars_not_vc == <<vars_ctl, vars_ps, vars_chk, vars_ev, vars_chain, vars_agg, vars_block, vars_rootc, vars_ser, vars_newctl, vars_sha, vars_et, vars_lay, vars_vb, vars_assoc, vars_evo, vars_lb>>

vars_not_vb == <<vars_ctl, vars_ps, vars_chk, vars_ev, vars_chain, vars_agg, vars_block, vars_rootc, vars_ser, vars_newctl, vars_sha, vars_et, vars_lay, vars_vc, vars_assoc, vars_evo, vars_lb>>

vars_not_assoc == <<vars_ctl, vars_ps, vars_chk, vars_ev, vars_chain, vars_agg, vars_block, vars_rootc, vars_ser, vars_newctl, vars_sha, vars_et, vars_lay, vars_vc, vars_vb, vars_evo, vars_lb>>

vars_not_evo == <<vars_ctl, vars_ps, vars_chk, vars_ev, vars_chain, vars_agg, vars_block, vars_rootc, vars_ser, vars_newctl, vars_sha, vars_et, vars_lay, vars_vc, vars_vb, vars_assoc, vars_lb>>

vars_not_lb == <<vars_ctl, vars_ps, vars_chk, vars_ev, vars_chain, vars_agg, vars_block, vars_rootc, vars_ser, vars_newctl, vars_sha, vars_et, vars_lay, vars_vc, vars_vb, vars_assoc, vars_evo>>

Unused == <<>>

\* The variables of a scenario that is not the one being run.
IdleLookups ==
    /\ cross_table_lookups = Unused
    /\ num_challenges = Unused
    /\ ctl_zs_first = Unused
    /\ verify_result = Unused
    /\ trace_poly_values = Unused
    /\ ctl_challenges = Unused
    /\ ctl_data = Unused

IdleSums ==
    /\ ps_trace = Unused
    /\ ps_columns_filters = Unused
    /\ ps_challenge = Unused
    /\ ps_helper_columns = Unused
    /\ ps_result = Unused
    /\ ps_checks = Unused

IdleCheck ==
    /\ chk_traces = Unused
    /\ chk_ctls = Unused
    /\ chk_result = Unused
    /\ chk_result_old = Unused

IdleEval ==
    /\ ev_vars = Unused
    /\ ev_local = Unused
    /\ ev_next = Unused
    /\ ev_degree = Unused
    /\ ev_native = Unused
    /\ ev_circuit = Unused

IdleChain ==
    /\ chain_table = Unused
    /\ degree_bits_range = Unused
    /\ degree_bits = Unused
    /\ initial_wrapper = Unused
    /\ shrinking_wrappers = Unused
    /\ circuit = Unused
    /\ builds = Unused
    /\ collected = Unused
    /\ by_stark_size = Unused
    /\ root_size = Unused
    /\ root_result = Unused
    /\ possible_vks = Unused

IdleAggregation ==
    /\ lhs_is_agg = Unused
    /\ lhs_receipt = Unused
    /\ rhs_is_agg = Unused
    /\ rhs_receipt = Unused
    /\ agg_inputs = Unused
    /\ agg_result = Unused

IdleBlock ==
    /\ agg_root_receipts = Unused
    /\ block_receipts = Unused
    /\ block_inputs = Unused
    /\ block_result = Unused

IdleRoot ==
    /\ root_pis = Unused
    /\ root_public_values = Unused
    /\ root_num_challenges = Unused
    /\ root_accepted = Unused

IdleSerial ==
    /\ ser_bytes = Unused
    /\ ser_restored = Unused

IdleNew ==
    /\ new_looking_tables = Unused
    /\ new_looked_table = Unused
    /\ new_result = Unused
    /\ new_result_old = Unused

IdleSha ==
    /\ sha_op = Unused
    /\ sha_row = Unused

IdleEvalTable ==
    /\ et_trace = Unused
    /\ et_column = Unused
    /\ et_filter = Unused
    /\ et_row = Unused
    /\ et_result = Unused
    /\ et_rows_read = Unused

IdleLayout ==
    /\ lay_ctls = Unused
    /\ lay_challenges = Unused
    /\ lay_num_lookup_columns = Unused
    /\ lay_data = Unused
    /\ lay_counts = Unused
    /\ lay_by_table = Unused
    /\ lay_vars = Unused
    /\ lay_targets = Unused

IdleVerifyCircuit ==
    /\ vc_ctls = Unused
    /\ vc_num_challenges = Unused
    /\ vc_wires = Unused
    /\ vc_values = Unused
    /\ vc_native = Unused
    /\ vc_constraints = Unused

IdleVerifyBlock ==
    /\ vb_receipt = Unused
    /\ vb_result = Unused
    /\ vb_log = Unused

IdleAssociativity ==
    /\ assoc_a = Unused
    /\ assoc_b = Unused
    /\ assoc_c = Unused
    /\ assoc_left_first = Unused
    /\ assoc_right_first = Unused

IdleEvalOld ==
    /\ evo_vars = Unused
    /\ evo_local = Unused
    /\ evo_next = Unused
    /\ evo_native = Unused
    /\ evo_circuit = Unused

IdleLeBytes ==
    /\ lb_cs = Unused
    /\ lb_trace = Unused
    /\ lb_row = Unused
    /\ lb_column = Unused
    /\ lb_column_old = Unused

---------------------------------------------------------------------------
(* Bounds of the model.                                                    *)

NumTables == 2
MaxLooking == 2
MaxLookups == 2
MaxChallenges == 2
MaxZ == 1
NumRows == 2
MaxValue == 1
MaxSelector == 2
MaxPairs == 3
MaxHelpers == 2
MaxDegree == 4
MaxTable == 1
MaxStarkBits == 3
MaxCircuitBits == 16
MaxLimb == 2
MaxByte == 1
UserdataLen == 2
MaxCommit == 1

\* Blocks folded by prove_block in a run.
MaxBlocks == 3

\* Values of a trace cap element, and of a challenge or of an element of
\* the challenger state (outputs of the hash), in the root circuit.
MaxCap == 1
MaxHashOutput == 1

\* Columns of a table in a CrossTableLookup under construction.
MaxColumns == 3

---------------------------------------------------------------------------
(* The field F.                                                            *)

P == 5

FieldElems == 0 .. (P - 1)

FAdd(a, b) == (a + b) % P

FSub(a, b) == (a - b + P) % P

FMul(a, b) == (a * b) % P

FNeg(a) == (P - a) % P

RECURSIVE FSumSeq(_)
FSumSeq(s) ==
    IF Len(s) = 0 THEN 0 ELSE FAdd(Head(s), FSumSeq(Tail(s)))

None == [tag |-> "None"]

NotRun == [tag |-> "NotRun"]

Tables == 0 .. (NumTables - 1)

SeqRange(s) == {s[i] : i \in 1 .. Len(s)}

---------------------------------------------------------------------------
(* Column, Filter, TableWithColumns, CrossTableLookup.                     *)

ColumnSingle(c) ==
    [linear_combination |-> <<<<c, 1>>>>,
     next_row_linear_combination |-> <<>>,
     constant |-> 0]

ColumnSingleNextRow(c) ==
    [linear_combination |-> <<>>,
     next_row_linear_combination |-> <<<<c, 1>>>>,
     constant |-> 0]

ColumnLinearCombinationWithConstant(v, constant) ==
    [linear_combination |-> v,
     next_row_linear_combination |-> <<>>,
     constant |-> constant]

FilterNew(products, constants) ==
    [products |-> products, constants |-> constants]

FilterNewSimple(col) ==
    [products |-> <<>>, constants |-> <<col>>]

TableWithColumnsNew(table, columns, filter) ==
    [table |-> table, columns |-> columns, filter |-> filter]

\* A trace is column-major: trace[c + 1][row + 1] is table[c].values[row].
TraceLen(trace) == Len(trace[1])

\* Sum of v[c] * f over the (c, f) pairs of a linear combination, v being
\* one row given as a sequence of cells.
RECURSIVE LinearSum(_, _)
LinearSum(lc, v) ==
    IF Len(lc) = 0 THEN 0
    ELSE FAdd(FMul(v[Head(lc)[1] + 1], Head(lc)[2]), LinearSum(Tail(lc), v))

TraceRow(trace, row) == [c \in 1 .. Len(trace) |-> trace[c][row + 1]]

ColumnEvalTableCyclic(col, trace, row) ==
    LET res == FAdd(LinearSum(col.linear_combination, TraceRow(trace, row)),
                    col.constant)
    IN  IF Len(col.next_row_linear_combination) # 0
        THEN FAdd(res, LinearSum(col.next_row_linear_combination,
                                 TraceRow(trace, (row + 1) % TraceLen(trace))))
        ELSE res

\* Column::eval_table: the current-row terms and the constant, and the
\* next-row terms unless the row is the last one.
ColumnEvalTable(col, trace, row) ==
    LET res == FAdd(LinearSum(col.linear_combination, TraceRow(trace, row)),
                    col.constant)
    IN  IF Len(col.next_row_linear_combination) # 0 /\ row < TraceLen(trace) - 1
        THEN FAdd(res, LinearSum(col.next_row_linear_combination,
                                 TraceRow(trace, row + 1)))
        ELSE res

ColumnEvalWithNext(col, v, next_v) ==
    FAdd(FAdd(LinearSum(col.linear_combination, v),
              LinearSum(col.next_row_linear_combination, next_v)),
         col.constant)

RECURSIVE FilterProductsTable(_, _, _)
FilterProductsTable(products, trace, row) ==
    IF Len(products) = 0 THEN 0
    ELSE FAdd(FMul(ColumnEvalTable(Head(products)[1], trace, row),
                   ColumnEvalTable(Head(products)[2], trace, row)),
              FilterProductsTable(Tail(products), trace, row))

RECURSIVE FilterConstantsTable(_, _, _)
FilterConstantsTable(constants, trace, row) ==
    IF Len(constants) = 0 THEN 0
    ELSE FAdd(ColumnEvalTable(Head(constants), trace, row),
              FilterConstantsTable(Tail(constants), trace, row))

FilterEvalTable(filter, trace, row) ==
    FAdd(FilterProductsTable(filter.products, trace, row),
         FilterConstantsTable(filter.constants, trace, row))

RECURSIVE FilterProducts(_, _, _)
FilterProducts(products, v, next_v) ==
    IF Len(products) = 0 THEN 0
    ELSE FAdd(FMul(ColumnEvalWithNext(Head(products)[1], v, next_v),
                   ColumnEvalWithNext(Head(products)[2], v, next_v)),
              FilterProducts(Tail(products), v, next_v))

RECURSIVE FilterConstants(_, _, _)
FilterConstants(constants, v, next_v) ==
    IF Len(constants) = 0 THEN 0
    ELSE FAdd(ColumnEvalWithNext(Head(constants), v, next_v),
              FilterConstants(Tail(constants), v, next_v))

EvalFilter(filter, v, next_v) ==
    FAdd(FilterProducts(filter.products, v, next_v),
         FilterConstants(filter.constants, v, next_v))

\* reduce_with_powers(terms, beta) + gamma.
RECURSIVE ReduceWithPowers(_, _)
ReduceWithPowers(terms, alpha) ==
    IF Len(terms) = 0 THEN 0
    ELSE FAdd(Head(terms), FMul(alpha, ReduceWithPowers(Tail(terms), alpha)))

Combine(challenge, terms) ==
    FAdd(ReduceWithPowers(terms, challenge.beta), challenge.gamma)

FInverse(x) == CHOOSE y \in FieldElems : FMul(x, y) = 1

---------------------------------------------------------------------------
(* get_helper_cols, partial_sums, cross_table_lookup_data.                 *)

Aborted(tag) == [tag |-> tag]

Ok(val) == [tag |-> "Ok", val |-> val]

IsAbort(r) == r.tag # "Ok"

\* The filter column of one (columns, filter) pair: an absent filter is 1.
FilterCol(trace, degree, filt) ==
    [d \in 1 .. degree |->
        IF filt = None THEN 1 ELSE FilterEvalTable(filt, trace, d - 1)]

\* The values handed to the batch inversion: the combined column values on
\* the rows whose filter is 1, the dummy value 1 elsewhere.
CombinedCol(trace, degree, cols, filter_col, challenge) ==
    [d \in 1 .. degree |->
        IF filter_col[d] = 1
        THEN Combine(challenge,
                     [i \in 1 .. Len(cols) |-> ColumnEvalTable(cols[i], trace, d - 1)])
        ELSE 1]

PairInversesNoMask(trace, degree, pair, challenge) ==
    LET Inverted(filter_col, combined) ==
            IF \E d \in 1 .. degree : filter_col[d] \notin {0, 1}
            THEN Aborted("NonBinaryFilter")
            ELSE IF \E d \in 1 .. degree : combined[d] = 0
            THEN Aborted("InvertZero")
            ELSE Ok([d \in 1 .. degree |-> FInverse(combined[d])])
        Combined(filter_col) ==
            Inverted(filter_col,
                     CombinedCol(trace, degree, pair[1], filter_col, challenge))
    IN  Combined(FilterCol(trace, degree, pair[2]))

PairInversesNonBinaryMasked(trace, degree, pair, challenge) ==
    LET Inverted(filter_col, combined) ==
            IF \E d \in 1 .. degree : combined[d] = 0
            THEN Aborted("InvertZero")
            ELSE Ok([d \in 1 .. degree |->
                        IF filter_col[d] # 1 THEN 0 ELSE FInverse(combined[d])])
        Combined(filter_col) ==
            Inverted(filter_col,
                     CombinedCol(trace, degree, pair[1], filter_col, challenge))
    IN  Combined(FilterCol(trace, degree, pair[2]))

\* One pass of get_helper_cols over a (columns, filter) pair: the assertion
\* on the filter values, the batch inversion of the combined values (which
\* fails on a zero), and the inverses forced to 0 where the filter is 0.
PairInverses(trace, degree, pair, challenge) ==
    LET Inverted(filter_col, combined) ==
            IF \E d \in 1 .. degree : filter_col[d] \notin {0, 1}
            THEN Aborted("NonBinaryFilter")
            ELSE IF \E d \in 1 .. degree : combined[d] = 0
            THEN Aborted("InvertZero")
            ELSE Ok([d \in 1 .. degree |->
                        IF filter_col[d] = 0 THEN 0 ELSE FInverse(combined[d])])
        Combined(filter_col) ==
            Inverted(filter_col,
                     CombinedCol(trace, degree, pair[1], filter_col, challenge))
    IN  Combined(FilterCol(trace, degree, pair[2]))

ChunkHelperFirstOnly(trace, degree, chunk, challenge, acc) ==
    IF Len(chunk) = 0 THEN Ok(acc)
    ELSE PairInverses(trace, degree, Head(chunk), challenge)

\* The helper column of one chunk: the first pair's column, to which every
\* further pair's column is added (batch_add_inplace). acc is the sum so far.
RECURSIVE ChunkHelper(_, _, _, _, _)
ChunkHelper(trace, degree, chunk, challenge, acc) ==
    IF Len(chunk) = 0 THEN Ok(acc)
    ELSE LET Added(inv) ==
                 IF IsAbort(inv) THEN inv
                 ELSE ChunkHelper(trace, degree, Tail(chunk), challenge,
                                  [d \in 1 .. degree |-> FAdd(acc[d], inv.val[d])])
         IN  Added(PairInverses(trace, degree, Head(chunk), challenge))

Min2(a, b) == IF a < b THEN a ELSE b

SetMin(S) == CHOOSE x \in S : \A y \in S : x <= y

RECURSIVE HelperColsFrom(_, _, _, _, _)
HelperColsFrom(trace, degree, columns_filters, challenge, size) ==
    IF Len(columns_filters) = 0 THEN Ok(<<>>)
    ELSE LET Pushed(h, rest) ==
                 IF IsAbort(h) THEN h
                 ELSE IF IsAbort(rest) THEN rest
                 ELSE Ok(<<h.val>> \o rest.val)
             Chunked(n) ==
                 Pushed(ChunkHelper(trace, degree, SubSeq(columns_filters, 1, n),
                                    challenge, [d \in 1 .. degree |-> 0]),
                        HelperColsFrom(trace, degree,
                                       SubSeq(columns_filters, n + 1,
                                              Len(columns_filters)),
                                       challenge, size))
         IN  Chunked(Min2(size, Len(columns_filters)))

GetHelperColsChunksOfDegree(trace, degree, columns_filters, challenge, constraint_degree) ==
    HelperColsFrom(trace, degree, columns_filters, challenge, constraint_degree)

\* get_helper_cols: one helper column for every chunk of constraint_degree - 1
\* consecutive pairs (columns_filters.chunks(constraint_degree - 1))
GetHelperCols(trace, degree, columns_filters, challenge, constraint_degree) ==
    HelperColsFrom(trace, degree, columns_filters, challenge, constraint_degree - 1)

\* Sum over the helper columns of their value at row d (1-based).
RECURSIVE HelperRowSum(_, _)
HelperRowSum(helper_columns, d) ==
    IF Len(helper_columns) = 0 THEN 0
    ELSE FAdd(Head(helper_columns)[d], HelperRowSum(Tail(helper_columns), d))

\* z after the loop and the final reverse: z[degree] is the last row's sum
\* and z[i] = z[i + 1] + (sum of the helper columns at row i).
RECURSIVE ZFrom(_, _, _)
ZFrom(helper_columns, degree, d) ==
    IF d = degree THEN <<HelperRowSum(helper_columns, degree)>>
    ELSE LET rest == ZFrom(helper_columns, degree, d + 1)
         IN  <<FAdd(rest[1], HelperRowSum(helper_columns, d))>> \o rest

RECURSIVE ZForward(_, _, _)
ZForward(helper_columns, degree, d) ==
    IF d = 1 THEN <<HelperRowSum(helper_columns, 1)>>
    ELSE LET before == ZForward(helper_columns, degree, d - 1)
         IN  Append(before, FAdd(before[d - 1], HelperRowSum(helper_columns, d)))

ZColumnForward(helper_columns, degree) == ZForward(helper_columns, degree, degree)

ZColumn(helper_columns, degree) == ZFrom(helper_columns, degree, 1)

PartialSumsAlwaysHelpers(trace, columns_filters, challenge, constraint_degree) ==
    LET degree == TraceLen(trace)
        Summed(helper_columns) ==
            IF IsAbort(helper_columns) THEN helper_columns
            ELSE Ok(Append(helper_columns.val, ZColumn(helper_columns.val, degree)))
    IN  Summed(GetHelperCols(trace, degree, columns_filters, challenge,
                             constraint_degree))

\* partial_sums: the helper columns, then Z from the last row up; Z alone
\* when there is one (columns, filter) pair.
PartialSums(trace, columns_filters, challenge, constraint_degree) ==
    LET degree == TraceLen(trace)
        WithZ(helper_columns, z) ==
            IF Len(columns_filters) > 1
            THEN Ok(Append(helper_columns, z))
            ELSE Ok(<<z>>)
        Summed(helper_columns) ==
            IF IsAbort(helper_columns) THEN helper_columns
            ELSE WithZ(helper_columns.val, ZColumn(helper_columns.val, degree))
    IN  Summed(GetHelperCols(trace, degree, columns_filters, challenge,
                             constraint_degree))

ColumnsFilters(twcs) == [i \in 1 .. Len(twcs) |-> <<twcs[i].columns, twcs[i].filter>>]

\* itertools group_by on the table: maximal runs of consecutive looking
\* tables that have the same table.
RECURSIVE GroupByTable(_)
GroupByTable(looking_tables) ==
    IF Len(looking_tables) = 0 THEN <<>>
    ELSE LET t == Head(looking_tables).table
             run == CHOOSE n \in 1 .. Len(looking_tables) :
                       /\ \A i \in 1 .. n : looking_tables[i].table = t
                       /\ (n = Len(looking_tables) \/ looking_tables[n + 1].table # t)
         IN  <<SubSeq(looking_tables, 1, run)>>
                 \o GroupByTable(SubSeq(looking_tables, run + 1, Len(looking_tables)))

CtlHelperZsCols(all_stark_traces, looking_tables, challenge, constraint_degree) ==
    LET Mapped(groups) ==
            [g \in 1 .. Len(groups) |->
                [table |-> groups[g][1].table,
                 helpers_zs |-> PartialSums(all_stark_traces[groups[g][1].table],
                                            ColumnsFilters(groups[g]),
                                            challenge, constraint_degree)]]
    IN  Mapped(GroupByTable(looking_tables))

LookingOfTable(looking_tables, table) ==
    LET Same(twc) == twc.table = table
    IN  SelectSeq(looking_tables, Same)

CtlZDataNew(helper_columns, z, challenge, columns, filter) ==
    [helper_columns |-> helper_columns, z |-> z, challenge |-> challenge,
     columns |-> columns, filter |-> filter]

\* The CtlZData pushed for the looking groups of one lookup and challenge,
\* appended to data (per-table lists) in the order of the groups.
RECURSIVE PushLooking(_, _, _, _, _)
PushLooking(data, helper_zs_looking, looking_tables, challenge, g) ==
    IF g > Len(helper_zs_looking) THEN data
    ELSE LET table == helper_zs_looking[g].table
             helpers_zs == helper_zs_looking[g].helpers_zs.val
             num_helpers == Len(helpers_zs) - 1
             same == LookingOfTable(looking_tables, table)
             zdata == CtlZDataNew(SubSeq(helpers_zs, 1, num_helpers),
                                  helpers_zs[num_helpers + 1],
                                  challenge,
                                  [i \in 1 .. Len(same) |-> same[i].columns],
                                  [i \in 1 .. Len(same) |-> same[i].filter])
         IN  PushLooking([data EXCEPT ![table] = Append(@, zdata)],
                         helper_zs_looking, looking_tables, challenge, g + 1)

\* The body of `for &challenge in &ctl_challenges.challenges`.
CtlDataStep(data, traces, ctl, challenge, constraint_degree) ==
    LET Pushed(helper_zs_looking, z_looked, lookingAborts) ==
            IF lookingAborts # {}
            THEN helper_zs_looking[SetMin(lookingAborts)].helpers_zs
            ELSE IF IsAbort(z_looked) THEN z_looked
            ELSE Ok([PushLooking(data, helper_zs_looking, ctl.looking_tables,
                                 challenge, 1)
                        EXCEPT ![ctl.looked_table.table] =
                            Append(@, CtlZDataNew(<<>>, z_looked.val[1], challenge,
                                                  <<ctl.looked_table.columns>>,
                                                  <<ctl.looked_table.filter>>))])
        Computed(helper_zs_looking, z_looked) ==
            Pushed(helper_zs_looking, z_looked,
                   {g \in 1 .. Len(helper_zs_looking) :
                       IsAbort(helper_zs_looking[g].helpers_zs)})
    IN  Computed(CtlHelperZsCols(traces, ctl.looking_tables, challenge,
                                 constraint_degree),
                 PartialSums(traces[ctl.looked_table.table],
                             <<<<ctl.looked_table.columns, ctl.looked_table.filter>>>>,
                             challenge, constraint_degree))

RECURSIVE CtlDataLoop(_, _, _, _, _, _, _)
CtlDataLoop(data, traces, ctls, challenges, constraint_degree, index, c) ==
    IF index > Len(ctls) THEN Ok(data)
    ELSE IF c > Len(challenges)
    THEN CtlDataLoop(data, traces, ctls, challenges, constraint_degree, index + 1, 1)
    ELSE LET Continue(next) ==
                 IF IsAbort(next) THEN next
                 ELSE CtlDataLoop(next.val, traces, ctls, challenges,
                                  constraint_degree, index, c + 1)
         IN  Continue(CtlDataStep(data, traces, ctls[index], challenges[c],
                                  constraint_degree))

CrossTableLookupData(traces, ctls, challenges, constraint_degree) ==
    CtlDataLoop([t \in Tables |-> <<>>], traces, ctls, challenges,
                constraint_degree, 1, 1)

\* CtlData::ctl_z_polys, each polynomial taken at the first row.
CtlZsFirst(data) ==
    [t \in Tables |-> [i \in 1 .. Len(data[t]) |-> data[t][i].z[1]]]

---------------------------------------------------------------------------
(* eval_helper_columns and eval_cross_table_lookup_checks (native).        *)
(* A constraint is <<kind, value>>: kind "every" for consumer.constraint,  *)
(* "last" for constraint_last_row, "transition" for constraint_transition. *)

Panic == Aborted("Panic")

FilterOrOne(f, v, next_v) ==
    IF f = None THEN 1 ELSE EvalFilter(f, v, next_v)

\* The constraint of one chunk of eval_helper_columns.
HelperChunkConstraint(fs, chunk, v, next_v, h, challenges) ==
    IF Len(chunk) = 2
    THEN LET combin0 == Combine(challenges, chunk[1])
             combin1 == Combine(challenges, chunk[2])
             f0 == FilterOrOne(fs[1], v, next_v)
             f1 == FilterOrOne(fs[2], v, next_v)
         IN  Ok(<<"every",
                  FSub(FSub(FMul(FMul(combin1, combin0), h), FMul(f0, combin1)),
                       FMul(f1, combin0))>>)
    ELSE IF Len(chunk) = 1
    THEN LET combin == Combine(challenges, chunk[1])
             f0 == FilterOrOne(fs[1], v, next_v)
         IN  Ok(<<"every", FSub(FMul(combin, h), f0)>>)
    ELSE Panic

RECURSIVE HelperChunksFrom(_, _, _, _, _, _, _, _)
HelperChunksFrom(filter, columns, v, next_v, helper_columns, size, challenges, j) ==
    IF size * j >= Len(columns) THEN Ok(<<>>)
    ELSE IF Min2(size * (j + 1), Len(columns)) > Len(filter) THEN Panic
    ELSE IF j + 1 > Len(helper_columns) THEN Panic
    ELSE LET Pushed(c, rest) ==
                 IF IsAbort(c) THEN c
                 ELSE IF IsAbort(rest) THEN rest
                 ELSE Ok(<<c.val>> \o rest.val)
             Chunked(hi) ==
                 Pushed(HelperChunkConstraint(SubSeq(filter, size * j + 1, hi),
                                              SubSeq(columns, size * j + 1, hi),
                                              v, next_v, helper_columns[j + 1],
                                              challenges),
                        HelperChunksFrom(filter, columns, v, next_v, helper_columns,
                                         size, challenges, j + 1))
         IN  Chunked(Min2(size * (j + 1), Len(columns)))

EvalHelperColumns(filter, columns, v, next_v, helper_columns, constraint_degree, challenges) ==
    IF Len(helper_columns) = 0 THEN Ok(<<>>)
    ELSE IF constraint_degree - 1 <= 0 THEN Panic
    ELSE HelperChunksFrom(filter, columns, v, next_v, helper_columns,
                          constraint_degree - 1, challenges, 0)

\* The last-row and transition constraints on Z of one CtlCheckVars.
ZConstraints(lookup_vars, evals, v, next_v) ==
    LET local_z == lookup_vars.local_z
        next_z == lookup_vars.next_z
        challenges == lookup_vars.challenges
        filter == lookup_vars.filter
    IN  IF Len(lookup_vars.helper_columns) # 0
        THEN LET h_sum == FSumSeq(lookup_vars.helper_columns)
             IN  Ok(<< <<"last", FSub(local_z, h_sum)>>,
                       <<"transition", FSub(FSub(local_z, next_z), h_sum)>> >>)
        ELSE IF Len(lookup_vars.columns) > 1
        THEN LET combin0 == Combine(challenges, evals[1])
                 combin1 == Combine(challenges, evals[2])
                 f0 == FilterOrOne(filter[1], v, next_v)
                 f1 == FilterOrOne(filter[2], v, next_v)
             IN  Ok(<< <<"last",
                         FSub(FSub(FMul(FMul(combin0, combin1), local_z),
                                   FMul(f0, combin1)),
                              FMul(f1, combin0))>>,
                       <<"transition",
                         FSub(FSub(FMul(FMul(combin0, combin1), FSub(local_z, next_z)),
                                   FMul(f0, combin1)),
                              FMul(f1, combin0))>> >>)
        ELSE IF Len(lookup_vars.columns) = 0 THEN Panic
        ELSE LET combin0 == Combine(challenges, evals[1])
                 f0 == FilterOrOne(filter[1], v, next_v)
             IN  Ok(<< <<"last", FSub(FMul(combin0, local_z), f0)>>,
                       <<"transition",
                         FSub(FMul(combin0, FSub(local_z, next_z)), f0)>> >>)

\* The body of `for lookup_vars in ctl_vars`: the constraints one
\* CtlCheckVars adds to the consumer, in order.
EvalLookupChecks(v, next_v, lookup_vars, constraint_degree) ==
    LET Emitted(helpers, zs) ==
            IF IsAbort(helpers) THEN helpers
            ELSE IF IsAbort(zs) THEN zs
            ELSE Ok(helpers.val \o zs.val)
        Evaluated(evals) ==
            Emitted(EvalHelperColumns(lookup_vars.filter, evals, v, next_v,
                                      lookup_vars.helper_columns, constraint_degree,
                                      lookup_vars.challenges),
                    ZConstraints(lookup_vars, evals, v, next_v))
    IN  Evaluated([i \in 1 .. Len(lookup_vars.columns) |->
                      [k \in 1 .. Len(lookup_vars.columns[i]) |->
                          ColumnEvalWithNext(lookup_vars.columns[i][k], v, next_v)]])

RECURSIVE EvalCrossTableLookupChecks(_, _, _, _)
EvalCrossTableLookupChecks(v, next_v, ctl_vars, constraint_degree) ==
    IF Len(ctl_vars) = 0 THEN Ok(<<>>)
    ELSE LET Emitted(first, rest) ==
                 IF IsAbort(first) THEN first
                 ELSE IF IsAbort(rest) THEN rest
                 ELSE Ok(first.val \o rest.val)
         IN  Emitted(EvalLookupChecks(v, next_v, Head(ctl_vars), constraint_degree),
                     EvalCrossTableLookupChecks(v, next_v, Tail(ctl_vars),
                                                constraint_degree))

CtlCheckVarsNew(helper_columns, local_z, next_z, challenges, columns, filter) ==
    [helper_columns |-> helper_columns, local_z |-> local_z, next_z |-> next_z,
     challenges |-> challenges, columns |-> columns, filter |-> filter]

---------------------------------------------------------------------------
(* verify_cross_table_lookups.                                             *)

ResOk == [tag |-> "Ok"]

ResErr(index) == [tag |-> "Err", index |-> index]

ResPanic == [tag |-> "Panic"]

RECURSIVE FilteredLookingTablesNoDedup(_)
FilteredLookingTablesNoDedup(looking_tables) ==
    IF Len(looking_tables) = 0 THEN <<>>
    ELSE <<Head(looking_tables).table>>
             \o FilteredLookingTablesNoDedup(Tail(looking_tables))

RECURSIVE FilteredFrom(_, _)
FilteredFrom(looking_tables, acc) ==
    IF Len(looking_tables) = 0 THEN acc
    ELSE LET t == Head(looking_tables).table
         IN  FilteredFrom(Tail(looking_tables),
                          IF t \in SeqRange(acc) THEN acc ELSE Append(acc, t))

FilteredLookingTables(looking_tables) ==
    FilteredFrom(looking_tables, <<>>)

\* One pass of the body of `for _c in 0..config.num_challenges`: reads the next
\* opening of every table of `filtered`, then the looked table's next opening.
\* pos[t] is the number of openings already taken from table t's iterator.
VerifyStep(filtered, looked, zs, pos) ==
    LET lookingExhausted ==
            \E i \in 1 .. Len(filtered) : pos[filtered[i]] >= Len(zs[filtered[i]])
        pos1 == [t \in Tables |->
                    IF t \in SeqRange(filtered) THEN pos[t] + 1 ELSE pos[t]]
        looking_zs_sum ==
            FSumSeq([i \in 1 .. Len(filtered) |->
                        zs[filtered[i]][pos[filtered[i]] + 1]])
        lookedExhausted == pos1[looked] >= Len(zs[looked])
        looked_z == zs[looked][pos1[looked] + 1]
    IN  IF lookingExhausted \/ lookedExhausted
        THEN [panic |-> TRUE, equal |-> FALSE, pos |-> pos]
        ELSE [panic |-> FALSE,
              equal |-> (looking_zs_sum = looked_z),
              pos |-> [pos1 EXCEPT ![looked] = @ + 1]]

RECURSIVE VerifyLoop(_, _, _, _, _, _)
VerifyLoop(ctls, zs, nc, index, c, pos) ==
    IF index > Len(ctls) THEN ResOk
    ELSE IF c >= nc THEN VerifyLoop(ctls, zs, nc, index + 1, 0, pos)
    ELSE LET st == VerifyStep(FilteredLookingTables(ctls[index].looking_tables),
                              ctls[index].looked_table.table, zs, pos)
         IN  IF st.panic THEN ResPanic
             ELSE IF ~st.equal THEN ResErr(index - 1)
             ELSE VerifyLoop(ctls, zs, nc, index, c + 1, st.pos)

VerifyCrossTableLookups(ctls, zs, nc) ==
    VerifyLoop(ctls, zs, nc, 1, 0, [t \in Tables |-> 0])

---------------------------------------------------------------------------
(* Inputs of the verifier specification.                                   *)

ZVals == 0 .. MaxZ

PlainTable(t) == TableWithColumnsNew(t, <<ColumnSingle(0)>>, None)

LookingLists ==
    UNION {[1 .. n -> {PlainTable(t) : t \in Tables}] : n \in 1 .. MaxLooking}

CrossTableLookupNew(looking_tables, looked_table) ==
    [looking_tables |-> looking_tables, looked_table |-> looked_table]

PlainLookups ==
    {CrossTableLookupNew(l, PlainTable(t)) : l \in LookingLists, t \in Tables}

PlainLookupLists ==
    UNION {[1 .. n -> PlainLookups] : n \in 1 .. MaxLookups}

\* Number of first-row Z openings table t contributes to one repetition of
\* lookup ctl: one if it is among the looking tables, one if it is looked.
ZsPerRepetition(ctl, t) ==
    (IF \E i \in 1 .. Len(ctl.looking_tables) : ctl.looking_tables[i].table = t
        THEN 1 ELSE 0)
    + (IF ctl.looked_table.table = t THEN 1 ELSE 0)

RECURSIVE NumZs(_, _, _)
NumZs(ctls, t, nc) ==
    IF Len(ctls) = 0 THEN 0
    ELSE nc * ZsPerRepetition(Head(ctls), t) + NumZs(Tail(ctls), t, nc)

RECURSIVE OpeningSeqs(_, _, _)
OpeningSeqs(n, ctls, nc) ==
    IF n = 0 THEN {<<>>}
    ELSE {Append(s, z) : s \in OpeningSeqs(n - 1, ctls, nc),
                         z \in [1 .. NumZs(ctls, n - 1, nc) -> ZVals]}

OpeningsFor(ctls, nc) ==
    {[t \in Tables |-> s[t + 1]] : s \in OpeningSeqs(NumTables, ctls, nc)}

InitVerify ==
    /\ pc = "opened"
    /\ cross_table_lookups \in PlainLookupLists
    /\ num_challenges \in 1 .. MaxChallenges
    /\ ctl_zs_first \in OpeningsFor(cross_table_lookups, num_challenges)
    /\ verify_result = NotRun
    /\ trace_poly_values = Unused
    /\ ctl_challenges = Unused
    /\ ctl_data = Unused
    /\ IdleSums /\ IdleCheck /\ IdleEval /\ IdleChain /\ IdleAggregation
    /\ IdleLeBytes /\ IdleEvalOld /\ IdleAssociativity /\ IdleVerifyBlock /\ IdleVerifyCircuit /\ IdleLayout /\ IdleBlock /\ IdleRoot /\ IdleSerial /\ IdleNew /\ IdleSha /\ IdleEvalTable

\* The verifier runs on the first-row openings at hand.
Verify ==
    /\ pc = "opened"
    /\ verify_result' =
           VerifyCrossTableLookups(cross_table_lookups, ctl_zs_first, num_challenges)
    /\ pc' = "verified"
    /\ UNCHANGED <<cross_table_lookups, num_challenges, ctl_zs_first,
                   trace_poly_values, ctl_challenges, ctl_data>>
    /\ UNCHANGED vars_not_ctl

NextVerify == Verify

SpecVerify == InitVerify /\ [][NextVerify]_vars

---------------------------------------------------------------------------
(* Proving and verifying one lookup between two tables: every table has a  *)
(* value column (0) and a selector column (1).                             *)

ConstraintDegree == 3

ValueCols == [1 .. NumRows -> 0 .. MaxValue]

SelectorCols == [1 .. NumRows -> {0, 1}]

SelectorTraces == {<<v, c>> : v \in ValueCols, c \in SelectorCols}

\* Filter::new_simple(Column::single(1)): the rows where C = 1.
FilterC == FilterNewSimple(ColumnSingle(1))

\* The rows where C = 0: the filter 1 - C.
FilterNotC ==
    FilterNewSimple(ColumnLinearCombinationWithConstant(<<<<1, P - 1>>>>, 1))

ScenarioLookups ==
    {CrossTableLookupNew(<<TableWithColumnsNew(0, <<ColumnSingle(0)>>, lf)>>,
                         TableWithColumnsNew(1, <<ColumnSingle(0)>>, FilterC)) :
        lf \in {FilterNotC, FilterC}}

Gammas == FieldElems

ScenarioChallenges == {[beta |-> 2, gamma |-> g] : g \in Gammas}

InitLookup ==
    /\ pc = "start"
    /\ cross_table_lookups \in {<<l>> : l \in ScenarioLookups}
    /\ ctl_challenges \in
           UNION {[1 .. n -> ScenarioChallenges] : n \in 1 .. MaxChallenges}
    /\ num_challenges = Len(ctl_challenges)
    /\ trace_poly_values \in
           [Tables -> SelectorTraces]
    /\ ctl_zs_first = Unused
    /\ verify_result = NotRun
    /\ ctl_data = Unused
    /\ IdleSums /\ IdleCheck /\ IdleEval /\ IdleChain /\ IdleAggregation
    /\ IdleLeBytes /\ IdleEvalOld /\ IdleAssociativity /\ IdleVerifyBlock /\ IdleVerifyCircuit /\ IdleLayout /\ IdleBlock /\ IdleRoot /\ IdleSerial /\ IdleNew /\ IdleSha /\ IdleEvalTable

\* The prover builds the helper and Z columns of every table.
CtlData ==
    /\ pc = "start"
    /\ LET data == CrossTableLookupData(trace_poly_values, cross_table_lookups,
                                        ctl_challenges, ConstraintDegree)
       IN  /\ ctl_data' = data
           /\ pc' = IF IsAbort(data) THEN "aborted" ELSE "data"
    /\ UNCHANGED <<cross_table_lookups, num_challenges, ctl_zs_first, verify_result,
                   trace_poly_values, ctl_challenges>>
    /\ UNCHANGED vars_not_ctl

\* The proof opens every Z column at the first row.
OpenFirstRow ==
    /\ pc = "data"
    /\ ctl_zs_first' = CtlZsFirst(ctl_data.val)
    /\ pc' = "opened"
    /\ UNCHANGED <<cross_table_lookups, num_challenges, verify_result,
                   trace_poly_values, ctl_challenges, ctl_data>>
    /\ UNCHANGED vars_not_ctl

NextLookup == CtlData \/ OpenFirstRow \/ Verify

SpecLookup == InitLookup /\ [][NextLookup]_vars

---------------------------------------------------------------------------
(* partial_sums on one table, then the constraints evaluated on every row  *)
(* of the resulting columns.  The table has a value column (0) and a       *)
(* selector column (1) whose cells need not be binary.                     *)

SumTraces ==
    {<<v, c>> : v \in ValueCols, c \in [1 .. NumRows -> 0 .. MaxSelector]}

\* The (columns, filter) pairs a group is drawn from.
SumPairs ==
    { <<<<ColumnSingle(0)>>, None>>,
      <<<<ColumnSingle(0)>>, FilterC>>,
      <<<<ColumnSingle(0), ColumnSingle(1)>>, FilterNotC>>,
      <<<<ColumnSingleNextRow(0)>>, FilterC>>,
      <<<<ColumnSingle(0)>>, FilterNewSimple(ColumnSingleNextRow(1))>> }

InitSums ==
    /\ pc = "start"
    /\ ps_trace \in SumTraces
    /\ ps_columns_filters \in UNION {[1 .. n -> SumPairs] : n \in 1 .. MaxPairs}
    /\ ps_challenge \in ScenarioChallenges
    /\ ps_helper_columns = NotRun
    /\ ps_result = NotRun
    /\ ps_checks = NotRun
    /\ IdleLookups /\ IdleCheck /\ IdleEval /\ IdleChain /\ IdleAggregation
    /\ IdleLeBytes /\ IdleEvalOld /\ IdleAssociativity /\ IdleVerifyBlock /\ IdleVerifyCircuit /\ IdleLayout /\ IdleBlock /\ IdleRoot /\ IdleSerial /\ IdleNew /\ IdleSha /\ IdleEvalTable

\* The prover computes the helper columns and Z of the group.
RunPartialSums ==
    /\ pc = "start"
    /\ LET r == PartialSums(ps_trace, ps_columns_filters, ps_challenge,
                            ConstraintDegree)
       IN  /\ ps_result' = r
           /\ pc' = IF IsAbort(r) THEN "aborted" ELSE "summed"
    /\ ps_helper_columns' = GetHelperCols(ps_trace, TraceLen(ps_trace), ps_columns_filters,
                                          ps_challenge, ConstraintDegree)
    /\ UNCHANGED <<ps_trace, ps_columns_filters, ps_challenge, ps_checks>>
    /\ UNCHANGED vars_not_ps

\* The row after `row` (1-based) in the evaluation domain, which is cyclic.
NextRowOf(row, degree) == IF row = degree THEN 1 ELSE row + 1

\* The CtlCheckVars of one group at one row: the openings of its helper
\* columns and of Z at the row and at the next row.
CheckVarsAt(zs_columns, columns_filters, challenge, row, degree) ==
    LET num_helpers == Len(zs_columns) - 1
        z == zs_columns[Len(zs_columns)]
    IN  CtlCheckVarsNew([j \in 1 .. num_helpers |-> zs_columns[j][row]],
                        z[row], z[NextRowOf(row, degree)], challenge,
                        [i \in 1 .. Len(columns_filters) |-> columns_filters[i][1]],
                        [i \in 1 .. Len(columns_filters) |-> columns_filters[i][2]])

\* The constraints are evaluated on every row of the domain.
EvalChecks ==
    /\ pc = "summed"
    /\ LET degree == TraceLen(ps_trace)
       IN  ps_checks' =
               [row \in 1 .. degree |->
                   EvalLookupChecks(TraceRow(ps_trace, row - 1),
                                    TraceRow(ps_trace, NextRowOf(row, degree) - 1),
                                    CheckVarsAt(ps_result.val, ps_columns_filters,
                                                ps_challenge, row, degree),
                                    ConstraintDegree)]
    /\ pc' = "evaluated"
    /\ UNCHANGED <<ps_trace, ps_columns_filters, ps_challenge, ps_helper_columns, ps_result>>
    /\ UNCHANGED vars_not_ps

NextSums == RunPartialSums \/ EvalChecks

SpecSums == InitSums /\ [][NextSums]_vars

---------------------------------------------------------------------------
(* Claims about verify_cross_table_lookups.                                *)

RECURSIVE ZsBefore(_, _, _, _)
\* Openings of table t that lie before those of lookup `index` (1-based).
ZsBefore(ctls, nc, index, t) ==
    IF index <= 1 THEN 0
    ELSE nc * ZsPerRepetition(ctls[index - 1], t) + ZsBefore(ctls, nc, index - 1, t)

LookingTableSet(ctl) ==
    {ctl.looking_tables[i].table : i \in 1 .. Len(ctl.looking_tables)}

RECURSIVE FSumOver(_, _)
FSumOver(S, f) ==
    IF S = {} THEN 0
    ELSE LET x == CHOOSE y \in S : TRUE
         IN  FAdd(f[x], FSumOver(S \ {x}, f))

\* The equality the verifier is meant to establish for lookup `index`
\* (1-based) and repetition c, stated on positions of the opening lists.
RepetitionBalanced(ctls, zs, nc, index, c) ==
    LET ctl == ctls[index]
        looking == LookingTableSet(ctl)
        lt == ctl.looked_table.table
        at(t) == ZsBefore(ctls, nc, index, t) + c * ZsPerRepetition(ctl, t)
        lookingZ == [t \in looking |-> zs[t][at(t) + 1]]
        lookedZ == zs[lt][at(lt) + (IF lt \in looking THEN 1 ELSE 0) + 1]
    IN  FSumOver(looking, lookingZ) = lookedZ

UnbalancedLookups(ctls, zs, nc) ==
    {i \in 1 .. Len(ctls) :
        \E c \in 0 .. (nc - 1) : ~RepetitionBalanced(ctls, zs, nc, i, c)}


\* C1: verify_cross_table_lookups returns Ok exactly when, for every lookup
\* and every challenge repetition, the next first-row Z openings of the
\* distinct looking tables sum to the looked table's next opening; otherwise
\* it returns the error that carries the (0-based) index of the first lookup
\* whose sum differs.
C1_VerifyContract ==
    pc = "verified" =>
        LET bad == UnbalancedLookups(cross_table_lookups, ctl_zs_first, num_challenges)
        IN  IF bad = {} THEN verify_result = ResOk
            ELSE verify_result = ResErr(SetMin(bad) - 1)

\* Witness for C1: two lookups and two repetitions are accepted although a
\* looking table is listed twice in a lookup and its openings are nonzero.
C1_Witness ==
    /\ verify_result = ResOk
    /\ Len(cross_table_lookups) = 2
    /\ num_challenges = 2
    /\ \E i \in 1 .. 2 :
          LET l == cross_table_lookups[i].looking_tables
          IN  /\ Len(l) = 2
              /\ l[1].table = l[2].table
              /\ \A k \in 1 .. Len(ctl_zs_first[l[1].table]) :
                     ctl_zs_first[l[1].table][k] # 0

\* Second witness shape for C1: the first lookup balances and the second
\* does not, so the error names index 1.
C1_WitnessErr ==
    /\ verify_result = ResErr(1)
    /\ num_challenges = 2

---------------------------------------------------------------------------
(* Claims about one lookup between two tables.                             *)

SelectedRows(twc, trace) ==
    {r \in 0 .. (TraceLen(trace) - 1) : FilterEvalTable(twc.filter, trace, r) = 1}

TheRow(S) == CHOOSE r \in S : TRUE

\* The scalar a table's only selected row maps to.
MappedValue(twc, trace) ==
    ColumnEvalTable(twc.columns[1], trace, TheRow(SelectedRows(twc, trace)))

OneRowEach ==
    LET ctl == cross_table_lookups[1]
        looking == ctl.looking_tables[1]
    IN  /\ Cardinality(SelectedRows(looking, trace_poly_values[looking.table])) = 1
        /\ Cardinality(SelectedRows(ctl.looked_table,
                                    trace_poly_values[ctl.looked_table.table])) = 1

LookingValue ==
    LET looking == cross_table_lookups[1].looking_tables[1]
    IN  MappedValue(looking, trace_poly_values[looking.table])

LookedValue ==
    LET looked == cross_table_lookups[1].looked_table
    IN  MappedValue(looked, trace_poly_values[looked.table])

CombinedNonzero ==
    \A c \in 1 .. Len(ctl_challenges) :
        /\ Combine(ctl_challenges[c], <<LookingValue>>) # 0
        /\ Combine(ctl_challenges[c], <<LookedValue>>) # 0

\* C2: when the looked filter and the looking filter select exactly one row
\* each and every challenge combines the two selected values to something
\* nonzero, cross_table_lookup_data returns Z columns, and on their first-row
\* values verify_cross_table_lookups returns Ok if the two rows map to the
\* same scalar and the verification error of lookup 0 if they differ.
C2_OneRowLookup ==
    (OneRowEach /\ CombinedNonzero) =>
        /\ pc # "aborted"
        /\ pc = "verified" =>
              IF LookingValue = LookedValue
              THEN verify_result = ResOk
              ELSE verify_result = ResErr(0)

\* Witness for C2: the scenario was proved and verified with equal mapped
\* values that are not zero, under two challenges.
C2_Witness ==
    /\ pc = "verified"
    /\ OneRowEach
    /\ CombinedNonzero
    /\ LookingValue = LookedValue
    /\ LookingValue # 0
    /\ Len(ctl_challenges) = 2
    /\ cross_table_lookups[1].looking_tables[1].filter = FilterNotC
    /\ verify_result = ResOk

\* Second witness shape for C2: one mapped value differs and the verifier
\* reports lookup 0.
C2_WitnessFlipped ==
    /\ pc = "verified"
    /\ OneRowEach
    /\ CombinedNonzero
    /\ LookingValue # LookedValue
    /\ verify_result = ResErr(0)

---------------------------------------------------------------------------
(* Claims about partial_sums and the constraints on its columns.           *)

SumRowsOf == 0 .. (TraceLen(ps_trace) - 1)

PairIndices == 1 .. Len(ps_columns_filters)

\* The value of pair i's filter at a row of the trace (rows from 0).
PairFilterAt(i, row) ==
    IF ps_columns_filters[i][2] = None THEN 1
    ELSE FilterEvalTable(ps_columns_filters[i][2], ps_trace, row)

\* The challenge combination of pair i's column values at a row.
PairCombinedAt(i, row) ==
    Combine(ps_challenge,
            [k \in 1 .. Len(ps_columns_filters[i][1]) |->
                ColumnEvalTable(ps_columns_filters[i][1][k], ps_trace, row)])

ColumnReadsNextRow(col) == Len(col.next_row_linear_combination) # 0

FilterReadsNextRow(f) ==
    /\ f # None
    /\ \/ \E k \in 1 .. Len(f.products) :
              ColumnReadsNextRow(f.products[k][1]) \/ ColumnReadsNextRow(f.products[k][2])
       \/ \E k \in 1 .. Len(f.constants) : ColumnReadsNextRow(f.constants[k])

PairReadsNextRow(i) ==
    \/ \E k \in 1 .. Len(ps_columns_filters[i][1]) :
           ColumnReadsNextRow(ps_columns_filters[i][1][k])
    \/ FilterReadsNextRow(ps_columns_filters[i][2])

\* Pair i's filter as the constraints see it on the last row.
PairFilterOnLastFrame(i) ==
    LET degree == TraceLen(ps_trace)
    IN  FilterOrOne(ps_columns_filters[i][2], TraceRow(ps_trace, degree - 1),
                    TraceRow(ps_trace, 0))

BinaryFilters ==
    \A i \in PairIndices : \A row \in SumRowsOf : PairFilterAt(i, row) \in {0, 1}

NonzeroOnSelected ==
    \A i \in PairIndices : \A row \in SumRowsOf :
        PairFilterAt(i, row) = 1 => PairCombinedAt(i, row) # 0

FiltersOffWhereNextRowRead ==
    \A i \in PairIndices :
        PairReadsNextRow(i) =>
            /\ PairFilterAt(i, TraceLen(ps_trace) - 1) = 0
            /\ PairFilterOnLastFrame(i) = 0

RoundTripPrecondition ==
    BinaryFilters /\ NonzeroOnSelected /\ FiltersOffWhereNextRowRead

\* A constraint binds on row `row` (1-based) of a domain of `degree` rows.
ConstraintBinds(kind, row, degree) ==
    \/ kind = "every"
    \/ kind = "last" /\ row = degree
    \/ kind = "transition" /\ row # degree

\* C3: for a group with binary filters, nonzero combined values on the
\* selected rows and filters that are 0 at the final row wherever next-row
\* columns are read, partial_sums returns columns, and every constraint of
\* eval_cross_table_lookup_checks on them is zero where it binds: the helper
\* identities on every row, the Z boundary identity on the last row, the Z
\* transition identity on every row but the last.
C3_HelperZRoundTrip ==
    RoundTripPrecondition =>
        /\ pc # "aborted"
        /\ pc = "evaluated" =>
              \A row \in 1 .. TraceLen(ps_trace) :
                  /\ ~IsAbort(ps_checks[row])
                  /\ \A k \in 1 .. Len(ps_checks[row].val) :
                         ConstraintBinds(ps_checks[row].val[k][1], row,
                                         TraceLen(ps_trace))
                             => ps_checks[row].val[k][2] = 0

\* Witness for C3: three pairs (a chunk of two and a chunk of one), one of
\* them reading the next row and selected on some row, evaluated under the
\* precondition with a nonzero first-row Z.
C3_Witness ==
    /\ pc = "evaluated"
    /\ RoundTripPrecondition
    /\ Len(ps_columns_filters) = 3
    /\ \E i \in PairIndices :
           /\ PairReadsNextRow(i)
           /\ \E row \in SumRowsOf : PairFilterAt(i, row) = 1
    /\ \E i \in PairIndices : \E row \in SumRowsOf : PairFilterAt(i, row) = 0
    /\ ps_result.val[Len(ps_result.val)][1] # 0
    /\ Len(ps_checks[1].val) = 4

\* Second witness shape for C3: a single pair, for which Z is the only
\* column and carries the boundary and transition identities itself.
C3_WitnessSinglePair ==
    /\ pc = "evaluated"
    /\ RoundTripPrecondition
    /\ Len(ps_columns_filters) = 1
    /\ Len(ps_result.val) = 1
    /\ \E row \in SumRowsOf : PairFilterAt(1, row) = 1
    /\ Len(ps_checks[1].val) = 2

\* The sum of 1/combine over the (pair, row) combinations of S whose filter
\* is 1.
SelectedInverseSum(S) ==
    LET sel == {x \in S : PairFilterAt(x[1], x[2]) = 1}
    IN  FSumOver(sel, [x \in sel |-> FInverse(PairCombinedAt(x[1], x[2]))])

\* The pairs of the chunk behind helper column j.
ChunkPairs(j) ==
    {i \in PairIndices :
        (ConstraintDegree - 1) * (j - 1) < i /\ i <= (ConstraintDegree - 1) * j}

\* C4: whenever partial_sums returns, Z[0] is the sum of 1/combine over
\* exactly the (pair, row) combinations whose filter is 1, and every helper
\* column's value at a row is that sum over the pairs of its chunk at that
\* row, so that a combination whose filter is 0 contributes 0 whatever its
\* column values are.
C4_FirstRowSum ==
    pc \in {"summed", "evaluated"} =>
        LET cols == ps_result.val
            z == cols[Len(cols)]
        IN  /\ z[1] = SelectedInverseSum(PairIndices \X SumRowsOf)
            /\ \A j \in 1 .. (Len(cols) - 1) : \A row \in SumRowsOf :
                   cols[j][row + 1] = SelectedInverseSum(ChunkPairs(j) \X {row})

\* Witness for C4: partial_sums returned although some combination with
\* filter 0 has column values whose challenge combination is 0, and some
\* other combination is selected.
C4_Witness ==
    /\ pc = "summed"
    /\ Len(ps_columns_filters) > 1
    /\ \E i \in PairIndices : \E row \in SumRowsOf :
           PairFilterAt(i, row) = 0 /\ PairCombinedAt(i, row) = 0
    /\ \E i \in PairIndices : \E row \in SumRowsOf : PairFilterAt(i, row) = 1
    /\ ps_result.val[Len(ps_result.val)][1] # 0

---------------------------------------------------------------------------
(* testutils::check_ctls, in the logUp engine and in the grand-product     *)
(* engine, whose tables carry a filter column instead of a Filter.         *)

\* MultiSet: from a row (the projected values) to the list of its locations.
EmptyMultiSet == [row \in {} |-> <<>>]

MultiSetPush(multiset, row, loc) ==
    IF row \in DOMAIN multiset
    THEN [multiset EXCEPT ![row] = Append(@, loc)]
    ELSE multiset @@ (row :> <<loc>>)

MultiSetGet(multiset, row) ==
    IF row \in DOMAIN multiset THEN multiset[row] ELSE <<>>

RECURSIVE ProcessRowsNoAssert(_, _, _, _, _)
ProcessRowsNoAssert(trace, table, filter_col, multiset, i) ==
    IF i >= TraceLen(trace) THEN Ok(multiset)
    ELSE IF filter_col[i + 1] = 1
    THEN ProcessRowsNoAssert(trace, table, filter_col,
                     MultiSetPush(multiset,
                                  [k \in 1 .. Len(table.columns) |->
                                      ColumnEvalTable(table.columns[k], trace, i)],
                                  <<table.table, i>>),
                     i + 1)
    ELSE ProcessRowsNoAssert(trace, table, filter_col, multiset, i + 1)

\* The loop of process_table from row i on; filter_col[i + 1] is the value
\* of the table's filter on row i.
RECURSIVE ProcessRows(_, _, _, _, _)
ProcessRows(trace, table, filter_col, multiset, i) ==
    IF i >= TraceLen(trace) THEN Ok(multiset)
    ELSE IF filter_col[i + 1] = 1
    THEN ProcessRows(trace, table, filter_col,
                     MultiSetPush(multiset,
                                  [k \in 1 .. Len(table.columns) |->
                                      ColumnEvalTable(table.columns[k], trace, i)],
                                  <<table.table, i>>),
                     i + 1)
    ELSE IF filter_col[i + 1] # 0 THEN Aborted("NonBinaryFilter")
    ELSE ProcessRows(trace, table, filter_col, multiset, i + 1)

ProcessTable(traces, table, multiset) ==
    ProcessRows(traces[table.table], table,
                FilterCol(traces[table.table], TraceLen(traces[table.table]),
                          table.filter),
                multiset, 0)

\* The grand-product engine's process_table: the filter is a Column.
ProcessTableOld(traces, table, multiset) ==
    ProcessRows(traces[table.table], table,
                [d \in 1 .. TraceLen(traces[table.table]) |->
                    IF table.filter_column = None THEN 1
                    ELSE ColumnEvalTable(table.filter_column, traces[table.table],
                                         d - 1)],
                multiset, 0)

\* `for table in looking_tables { process_table(..) }` from table k on.
RECURSIVE ProcessLooking(_, _, _, _, _)
ProcessLooking(traces, looking_tables, multiset, k, old) ==
    IF k > Len(looking_tables) THEN Ok(multiset)
    ELSE LET Continue(pushed) ==
                 IF IsAbort(pushed) THEN pushed
                 ELSE ProcessLooking(traces, looking_tables, pushed.val, k + 1, old)
         IN  Continue(IF old
                      THEN ProcessTableOld(traces, looking_tables[k], multiset)
                      ELSE ProcessTable(traces, looking_tables[k], multiset))

CtlMismatch(ctl_index) == [tag |-> "CtlMismatch", ctl_index |-> ctl_index]

\* check_locations on every row of the two multisets.
CheckLocations(looking_multiset, looked_multiset, ctl_index) ==
    IF \E row \in (DOMAIN looking_multiset) \cup (DOMAIN looked_multiset) :
           Len(MultiSetGet(looking_multiset, row))
               # Len(MultiSetGet(looked_multiset, row))
    THEN CtlMismatch(ctl_index)
    ELSE Ok(ctl_index)

CheckCtlWith(traces, ctl, ctl_index, old) ==
    LET Compared(looking, looked) ==
            IF IsAbort(looking) THEN looking
            ELSE IF IsAbort(looked) THEN looked
            ELSE CheckLocations(looking.val, looked.val, ctl_index)
    IN  Compared(ProcessLooking(traces, ctl.looking_tables, EmptyMultiSet, 1, old),
                 IF old
                 THEN ProcessTableOld(traces, ctl.looked_table, EmptyMultiSet)
                 ELSE ProcessTable(traces, ctl.looked_table, EmptyMultiSet))

CheckCtl(traces, ctl, ctl_index) == CheckCtlWith(traces, ctl, ctl_index, FALSE)

CheckCtlOld(traces, ctl, ctl_index) == CheckCtlWith(traces, ctl, ctl_index, TRUE)

\* `for (i, ctl) in cross_table_lookups.iter().enumerate()` from lookup i on
\* (i from 0).
RECURSIVE CheckCtlsFrom(_, _, _, _)
CheckCtlsFrom(traces, ctls, i, old) ==
    IF i >= Len(ctls) THEN Ok(Len(ctls))
    ELSE LET Continue(checked) ==
                 IF IsAbort(checked) THEN checked
                 ELSE CheckCtlsFrom(traces, ctls, i + 1, old)
         IN  Continue(IF old THEN CheckCtlOld(traces, ctls[i + 1], i)
                      ELSE CheckCtl(traces, ctls[i + 1], i))

CheckCtls(traces, ctls) == CheckCtlsFrom(traces, ctls, 0, FALSE)

CheckCtlsOld(traces, ctls) == CheckCtlsFrom(traces, ctls, 0, TRUE)

\* The grand-product engine's TableWithColumns for the same table, columns
\* and selector: the filter column is the column the simple filter wraps.
TableWithColumnsOld(table) ==
    [table |-> table.table, columns |-> table.columns,
     filter_column |-> IF table.filter = None THEN None
                       ELSE table.filter.constants[1]]

CrossTableLookupOld(ctl) ==
    [looking_tables |-> [k \in 1 .. Len(ctl.looking_tables) |->
                            TableWithColumnsOld(ctl.looking_tables[k])],
     looked_table |-> TableWithColumnsOld(ctl.looked_table)]

\* The lookups check_ctls is run on: every table has a value column (0)
\* and a selector column (1).
CheckLookups ==
    LET V == <<ColumnSingle(0)>>
        VC == <<ColumnSingle(0), ColumnSingle(1)>>
        T(t, cols, f) == TableWithColumnsNew(t, cols, f)
    IN  { CrossTableLookupNew(<<T(0, V, FilterC)>>, T(1, V, FilterC)),
          CrossTableLookupNew(<<T(0, V, FilterNotC)>>, T(1, V, None)),
          CrossTableLookupNew(<<T(0, V, FilterC), T(1, V, FilterNotC)>>,
                              T(1, V, FilterC)),
          CrossTableLookupNew(<<T(0, V, FilterC), T(0, V, FilterC)>>,
                              T(1, V, None)),
          CrossTableLookupNew(<<T(0, VC, None)>>, T(1, VC, None)),
          CrossTableLookupNew(<<T(0, V, None)>>, T(0, V, FilterC)) }

InitCheck ==
    /\ pc = "start"
    /\ chk_traces \in [Tables -> SumTraces]
    /\ chk_ctls \in UNION {[1 .. n -> CheckLookups] : n \in 1 .. MaxLookups}
    /\ chk_result = NotRun
    /\ chk_result_old = NotRun
    /\ IdleLookups /\ IdleSums /\ IdleEval /\ IdleChain /\ IdleAggregation
    /\ IdleLeBytes /\ IdleEvalOld /\ IdleAssociativity /\ IdleVerifyBlock /\ IdleVerifyCircuit /\ IdleLayout /\ IdleBlock /\ IdleRoot /\ IdleSerial /\ IdleNew /\ IdleSha /\ IdleEvalTable

\* check_ctls of the logUp engine runs on the traces and lookups.
RunCheckCtls ==
    /\ pc = "start"
    /\ chk_result' = CheckCtls(chk_traces, chk_ctls)
    /\ pc' = "checked"
    /\ UNCHANGED <<chk_traces, chk_ctls, chk_result_old>>
    /\ UNCHANGED vars_not_chk

\* check_ctls of the grand-product engine runs on the same traces and on
\* the same lookups in its own representation.
RunCheckCtlsOld ==
    /\ pc = "checked"
    /\ chk_result_old' =
           CheckCtlsOld(chk_traces,
                        [i \in 1 .. Len(chk_ctls) |-> CrossTableLookupOld(chk_ctls[i])])
    /\ pc' = "checked_old"
    /\ UNCHANGED <<chk_traces, chk_ctls, chk_result>>
    /\ UNCHANGED vars_not_chk

NextCheck == RunCheckCtls \/ RunCheckCtlsOld

SpecCheck == InitCheck /\ [][NextCheck]_vars

---------------------------------------------------------------------------
(* Claims about check_ctls.                                                *)

\* The value of a table's filter on a row of its trace.
TableFilterAt(table, row) ==
    IF table.filter = None THEN 1
    ELSE FilterEvalTable(table.filter, chk_traces[table.table], row)

\* The values a table projects a row to.
ProjectedRow(table, row) ==
    [k \in 1 .. Len(table.columns) |->
        ColumnEvalTable(table.columns[k], chk_traces[table.table], row)]

ChkRows == 0 .. (NumRows - 1)

\* How many rows of the listed tables have filter 1 and project to `value`
\* (a table listed twice counts twice).
SelectedCount(tables, value) ==
    Cardinality({x \in (1 .. Len(tables)) \X ChkRows :
                    /\ TableFilterAt(tables[x[1]], x[2]) = 1
                    /\ ProjectedRow(tables[x[1]], x[2]) = value})

ProjectedValues(ctl) ==
    {ProjectedRow(ctl.looked_table, row) : row \in ChkRows}
        \cup UNION {{ProjectedRow(ctl.looking_tables[k], row) : row \in ChkRows} :
                       k \in 1 .. Len(ctl.looking_tables)}

CountsAgree ==
    \A i \in 1 .. Len(chk_ctls) : \A value \in ProjectedValues(chk_ctls[i]) :
        SelectedCount(chk_ctls[i].looking_tables, value)
            = SelectedCount(<<chk_ctls[i].looked_table>>, value)

FiltersAreBinary ==
    \A i \in 1 .. Len(chk_ctls) : \A row \in ChkRows :
        /\ TableFilterAt(chk_ctls[i].looked_table, row) \in {0, 1}
        /\ \A k \in 1 .. Len(chk_ctls[i].looking_tables) :
               TableFilterAt(chk_ctls[i].looking_tables[k], row) \in {0, 1}

\* C5 as stated: check_ctls accepts exactly when, for every lookup and every
\* projected value, as many filter-1 rows of the looking tables project to it
\* as filter-1 rows of the looked table.  (Refuted: a filter that takes a
\* value other than 0 and 1 aborts the check whatever the counts are.)
C5_AcceptsIffCountsAgree ==
    /\ pc \in {"checked", "checked_old"} => (~IsAbort(chk_result) <=> CountsAgree)
    /\ pc = "checked_old" => (~IsAbort(chk_result_old) <=> CountsAgree)

\* C5, amended: check_ctls accepts exactly when every filter of every
\* lookup is 0 or 1 on every row and, for every lookup and every projected
\* value, as many filter-1 rows of the looking tables project to it as
\* filter-1 rows of the looked table; both engines decide alike.
C5_AcceptsIffBinaryAndCountsAgree ==
    /\ pc \in {"checked", "checked_old"} =>
           (~IsAbort(chk_result) <=> (FiltersAreBinary /\ CountsAgree))
    /\ pc = "checked_old" =>
           (~IsAbort(chk_result_old) <=> (FiltersAreBinary /\ CountsAgree))

\* Witness for C5: two lookups were checked by both engines and accepted,
\* with a selected row on each side of each lookup.
C5_Witness ==
    /\ pc = "checked_old"
    /\ Len(chk_ctls) = 2
    /\ ~IsAbort(chk_result)
    /\ ~IsAbort(chk_result_old)
    /\ \A i \in 1 .. 2 : \E row \in ChkRows :
           /\ TableFilterAt(chk_ctls[i].looked_table, row) = 1
           /\ chk_ctls[i].looked_table.filter # None

\* Second witness shape for C5: the counts agree and yet the check aborts on
\* a filter value other than 0 and 1.
C5_WitnessNonBinary ==
    /\ pc = "checked_old"
    /\ CountsAgree
    /\ ~FiltersAreBinary
    /\ chk_result = Aborted("NonBinaryFilter")
    /\ chk_result_old = Aborted("NonBinaryFilter")

\* Third witness shape for C5: binary filters, differing counts, and the
\* abort names the lookup.
C5_WitnessMismatch ==
    /\ pc = "checked_old"
    /\ FiltersAreBinary
    /\ ~CountsAgree
    /\ chk_result = CtlMismatch(1)
    /\ chk_result_old = CtlMismatch(1)

---------------------------------------------------------------------------
(* The circuit evaluators.  A wire is modelled by the value it carries, a  *)
(* builder operation by the value of the wire it returns.                  *)

MulExtension(a, b) == FMul(a, b)

AddExtension(a, b) == FAdd(a, b)

SubExtension(a, b) == FSub(a, b)

\* builder.mul_sub_extension(a, b, c) = a * b - c
MulSubExtension(a, b, c) == FSub(FMul(a, b), c)

\* builder.arithmetic_extension(const_0, const_1, multiplicand_0,
\* multiplicand_1, addend) = const_0 * m0 * m1 + const_1 * addend
ArithmeticExtension(const_0, const_1, m0, m1, addend) ==
    FAdd(FMul(const_0, FMul(m0, m1)), FMul(const_1, addend))

RECURSIVE AddManyExtension(_)
AddManyExtension(terms) ==
    IF Len(terms) = 0 THEN 0
    ELSE AddExtension(AddManyExtension(SubSeq(terms, 1, Len(terms) - 1)),
                      terms[Len(terms)])

\* builder.inner_product_extension(constant, starting_acc, pairs)
RECURSIVE InnerProductExtension(_, _, _)
InnerProductExtension(constant, starting_acc, pairs) ==
    IF Len(pairs) = 0 THEN starting_acc
    ELSE InnerProductExtension(constant,
                               ArithmeticExtension(constant, 1, Head(pairs)[1],
                                                   Head(pairs)[2], starting_acc),
                               Tail(pairs))

ColumnEvalWithNextCircuit(col, v, next_v) ==
    InnerProductExtension(
        1, col.constant,
        [i \in 1 .. Len(col.linear_combination) |->
            <<v[col.linear_combination[i][1] + 1], col.linear_combination[i][2]>>]
        \o [i \in 1 .. Len(col.next_row_linear_combination) |->
               <<next_v[col.next_row_linear_combination[i][1] + 1],
                 col.next_row_linear_combination[i][2]>>])

EvalFilterCircuit(filter, v, next_v) ==
    AddExtension(
        AddManyExtension([i \in 1 .. Len(filter.products) |->
            MulExtension(ColumnEvalWithNextCircuit(filter.products[i][1], v, next_v),
                         ColumnEvalWithNextCircuit(filter.products[i][2], v, next_v))]),
        AddManyExtension([i \in 1 .. Len(filter.constants) |->
            ColumnEvalWithNextCircuit(filter.constants[i], v, next_v)]))

\* reduce_with_powers_ext_circuit: the terms reduced from the last one on.
RECURSIVE ReduceWithPowersExtCircuit(_, _)
ReduceWithPowersExtCircuit(terms, alpha) ==
    IF Len(terms) = 0 THEN 0
    ELSE AddExtension(
             MulExtension(ReduceWithPowersExtCircuit(Tail(terms), alpha), alpha),
             Head(terms))

CombineCircuit(challenge, terms) ==
    AddExtension(ReduceWithPowersExtCircuit(terms, challenge.beta), challenge.gamma)

FilterOrOneCircuit(f, v, next_v) ==
    IF f = None THEN 1 ELSE EvalFilterCircuit(f, v, next_v)

HelperChunkConstraintCircuitSwapped(fs, chunk, v, next_v, h, challenges) ==
    IF Len(chunk) = 2
    THEN LET combin0 == CombineCircuit(challenges, chunk[1])
             combin1 == CombineCircuit(challenges, chunk[2])
             f0 == FilterOrOneCircuit(fs[1], v, next_v)
             f1 == FilterOrOneCircuit(fs[2], v, next_v)
         IN  Ok(<<"every",
                  SubExtension(MulExtension(MulSubExtension(combin0, h, f1), combin1),
                               MulExtension(f0, combin0))>>)
    ELSE IF Len(chunk) = 1
    THEN Ok(<<"every",
              MulSubExtension(CombineCircuit(challenges, chunk[1]), h,
                              FilterOrOneCircuit(fs[1], v, next_v))>>)
    ELSE Panic

\* The constraint of one chunk of eval_helper_columns_circuit.
HelperChunkConstraintCircuit(fs, chunk, v, next_v, h, challenges) ==
    IF Len(chunk) = 2
    THEN LET combin0 == CombineCircuit(challenges, chunk[1])
             combin1 == CombineCircuit(challenges, chunk[2])
             f0 == FilterOrOneCircuit(fs[1], v, next_v)
             f1 == FilterOrOneCircuit(fs[2], v, next_v)
         IN  Ok(<<"every",
                  SubExtension(MulExtension(MulSubExtension(combin0, h, f0), combin1),
                               MulExtension(f1, combin0))>>)
    ELSE IF Len(chunk) = 1
    THEN Ok(<<"every",
              MulSubExtension(CombineCircuit(challenges, chunk[1]), h,
                              FilterOrOneCircuit(fs[1], v, next_v))>>)
    ELSE Panic

RECURSIVE HelperChunksFromCircuit(_, _, _, _, _, _, _, _)
HelperChunksFromCircuit(filter, columns, v, next_v, helper_columns, size, challenges, j) ==
    IF size * j >= Len(columns) THEN Ok(<<>>)
    ELSE IF Min2(size * (j + 1), Len(columns)) > Len(filter) THEN Panic
    ELSE IF j + 1 > Len(helper_columns) THEN Panic
    ELSE LET Pushed(c, rest) ==
                 IF IsAbort(c) THEN c
                 ELSE IF IsAbort(rest) THEN rest
                 ELSE Ok(<<c.val>> \o rest.val)
             Chunked(hi) ==
                 Pushed(HelperChunkConstraintCircuit(
                            SubSeq(filter, size * j + 1, hi),
                            SubSeq(columns, size * j + 1, hi),
                            v, next_v, helper_columns[j + 1], challenges),
                        HelperChunksFromCircuit(filter, columns, v, next_v,
                                                helper_columns, size, challenges,
                                                j + 1))
         IN  Chunked(Min2(size * (j + 1), Len(columns)))

EvalHelperColumnsCircuit(filter, columns, v, next_v, helper_columns, constraint_degree, challenges) ==
    IF Len(helper_columns) = 0 THEN Ok(<<>>)
    ELSE IF constraint_degree - 1 <= 0 THEN Panic
    ELSE HelperChunksFromCircuit(filter, columns, v, next_v, helper_columns,
                                 constraint_degree - 1, challenges, 0)

\* The last-row and transition constraints on Z of one CtlCheckVarsTarget.
ZConstraintsCircuit(lookup_vars, evals, v, next_v) ==
    LET local_z == lookup_vars.local_z
        challenges == lookup_vars.challenges
        filter == lookup_vars.filter
        z_diff == SubExtension(lookup_vars.local_z, lookup_vars.next_z)
    IN  IF Len(lookup_vars.helper_columns) # 0
        THEN LET h_sum == AddManyExtension(lookup_vars.helper_columns)
             IN  Ok(<< <<"last", SubExtension(local_z, h_sum)>>,
                       <<"transition", SubExtension(z_diff, h_sum)>> >>)
        ELSE IF Len(lookup_vars.columns) > 1
        THEN LET combin0 == CombineCircuit(challenges, evals[1])
                 combin1 == CombineCircuit(challenges, evals[2])
                 f0 == FilterOrOneCircuit(filter[1], v, next_v)
                 f1 == FilterOrOneCircuit(filter[2], v, next_v)
             IN  Ok(<< <<"last",
                         ArithmeticExtension(
                             FNeg(1), 1, f0, combin1,
                             MulExtension(MulSubExtension(combin1, local_z, f1),
                                          combin0))>>,
                       <<"transition",
                         ArithmeticExtension(
                             FNeg(1), 1, f0, combin1,
                             MulExtension(MulSubExtension(combin1, z_diff, f1),
                                          combin0))>> >>)
        ELSE IF Len(lookup_vars.columns) = 0 THEN Panic
        ELSE LET combin0 == CombineCircuit(challenges, evals[1])
                 f0 == FilterOrOneCircuit(filter[1], v, next_v)
             IN  Ok(<< <<"last", MulSubExtension(combin0, local_z, f0)>>,
                       <<"transition", MulSubExtension(combin0, z_diff, f0)>> >>)

\* The body of `for lookup_vars in ctl_vars` of the circuit evaluator.
EvalLookupChecksCircuit(v, next_v, lookup_vars, constraint_degree) ==
    LET Emitted(helpers, zs) ==
            IF IsAbort(helpers) THEN helpers
            ELSE IF IsAbort(zs) THEN zs
            ELSE Ok(helpers.val \o zs.val)
        Evaluated(evals) ==
            Emitted(EvalHelperColumnsCircuit(lookup_vars.filter, evals, v, next_v,
                                             lookup_vars.helper_columns,
                                             constraint_degree, lookup_vars.challenges),
                    ZConstraintsCircuit(lookup_vars, evals, v, next_v))
    IN  Evaluated([i \in 1 .. Len(lookup_vars.columns) |->
                      [k \in 1 .. Len(lookup_vars.columns[i]) |->
                          ColumnEvalWithNextCircuit(lookup_vars.columns[i][k], v,
                                                    next_v)]])

RECURSIVE EvalCrossTableLookupChecksCircuit(_, _, _, _)
EvalCrossTableLookupChecksCircuit(v, next_v, ctl_vars, constraint_degree) ==
    IF Len(ctl_vars) = 0 THEN Ok(<<>>)
    ELSE LET Emitted(first, rest) ==
                 IF IsAbort(first) THEN first
                 ELSE IF IsAbort(rest) THEN rest
                 ELSE Ok(first.val \o rest.val)
         IN  Emitted(EvalLookupChecksCircuit(v, next_v, Head(ctl_vars),
                                             constraint_degree),
                     EvalCrossTableLookupChecksCircuit(v, next_v, Tail(ctl_vars),
                                                       constraint_degree))

---------------------------------------------------------------------------
(* The native and the circuit evaluator on the same check variables and    *)
(* the same frame; the circuit's wires carry the opening values.           *)

\* The (columns, filter) pairs a CtlCheckVars is drawn from.
EvalPairs ==
    { <<<<ColumnSingle(0)>>, None>>,
      <<<<ColumnSingle(0), ColumnSingle(1)>>, FilterC>>,
      <<<<ColumnSingleNextRow(0)>>, FilterNewSimple(ColumnSingleNextRow(1))>> }

EvalChallenges == {[beta |-> 2, gamma |-> g] : g \in {1, 3}}

HelperOpenings ==
    UNION {[1 .. n -> 1 .. MaxSelector] : n \in 0 .. MaxHelpers}

EvalCheckVars ==
    {CtlCheckVarsNew(h, lz, nz, ch,
                     [i \in 1 .. Len(pairs) |-> pairs[i][1]],
                     [i \in 1 .. Len(pairs) |-> pairs[i][2]]) :
        h \in HelperOpenings, lz \in 0 .. MaxSelector, nz \in 0 .. MaxValue,
        ch \in EvalChallenges,
        pairs \in UNION {[1 .. n -> EvalPairs] : n \in 1 .. MaxPairs}}

EvalFrameRows == {<<v, c>> : v \in 0 .. MaxValue, c \in 0 .. MaxValue}

\* A second CtlCheckVars, which some ctl_vars lists end with.
PlainCheckVars ==
    CtlCheckVarsNew(<<>>, 1, 2, [beta |-> 2, gamma |-> 1],
                    <<<<ColumnSingle(0)>>>>, <<FilterC>>)

InitEval ==
    /\ pc = "start"
    /\ ev_vars \in {<<x>> : x \in EvalCheckVars}
                       \cup {<<x, PlainCheckVars>> : x \in EvalCheckVars}
    /\ ev_local \in EvalFrameRows
    /\ ev_next \in EvalFrameRows
    /\ ev_degree \in 2 .. MaxDegree
    /\ ev_native = NotRun
    /\ ev_circuit = NotRun
    /\ IdleLookups /\ IdleSums /\ IdleCheck /\ IdleChain /\ IdleAggregation
    /\ IdleLeBytes /\ IdleEvalOld /\ IdleAssociativity /\ IdleVerifyBlock /\ IdleVerifyCircuit /\ IdleLayout /\ IdleBlock /\ IdleRoot /\ IdleSerial /\ IdleNew /\ IdleSha /\ IdleEvalTable

\* The native evaluator hands its constraints to the consumer.
EvalNative ==
    /\ pc = "start"
    /\ ev_native' = EvalCrossTableLookupChecks(ev_local, ev_next, ev_vars, ev_degree)
    /\ pc' = "native"
    /\ UNCHANGED <<ev_vars, ev_local, ev_next, ev_degree, ev_circuit>>
    /\ UNCHANGED vars_not_ev

\* The circuit evaluator hands its constraints to the recursive consumer.
EvalCircuit ==
    /\ pc = "native"
    /\ ev_circuit' =
           EvalCrossTableLookupChecksCircuit(ev_local, ev_next, ev_vars, ev_degree)
    /\ pc' = "circuit"
    /\ UNCHANGED <<ev_vars, ev_local, ev_next, ev_degree, ev_native>>
    /\ UNCHANGED vars_not_ev

NextEval == EvalNative \/ EvalCircuit

SpecEval == InitEval /\ [][NextEval]_vars

---------------------------------------------------------------------------
(* Claims about the two evaluators.                                        *)

\* C6: on the same check variables and frame the circuit evaluator stops
\* exactly when the native one does, and otherwise emits as many constraints,
\* each of the same kind and of the same value as the native constraint at
\* the same position.
C6_NativeCircuitAgree ==
    pc = "circuit" =>
        /\ IsAbort(ev_circuit) <=> IsAbort(ev_native)
        /\ ~IsAbort(ev_native) =>
               /\ Len(ev_circuit.val) = Len(ev_native.val)
               /\ \A k \in 1 .. Len(ev_native.val) :
                      /\ ev_circuit.val[k][1] = ev_native.val[k][1]
                      /\ ev_circuit.val[k][2] = ev_native.val[k][2]

\* Witness for C6: three column groups behind two helper columns (a chunk
\* of two and a chunk of one) with a present and an absent filter, followed
\* by a second record; both evaluators emitted the six constraints, not all
\* of them zero.
C6_Witness ==
    /\ pc = "circuit"
    /\ Len(ev_vars) = 2
    /\ Len(ev_vars[1].columns) = 3
    /\ Len(ev_vars[1].helper_columns) = 2
    /\ ev_degree = 3
    /\ \E i \in 1 .. 2 : ev_vars[1].filter[i] = None
    /\ \E i \in 1 .. 2 : ev_vars[1].filter[i] # None
    /\ ~IsAbort(ev_native)
    /\ Len(ev_circuit.val) = 6
    /\ ev_circuit.val[1][2] # 0
    /\ ev_circuit.val[3][2] # 0

\* Second witness shape for C6: no helper column and two column groups, the
\* Z constraints taken on the two groups directly.
C6_WitnessTwoGroups ==
    /\ pc = "circuit"
    /\ Len(ev_vars[1].columns) = 2
    /\ Len(ev_vars[1].helper_columns) = 0
    /\ ~IsAbort(ev_circuit)
    /\ ev_circuit.val[1][2] # 0
    /\ ev_circuit.val[2][2] # ev_circuit.val[1][2]

\* Third witness shape for C6: a chunk of three column groups, on which
\* both evaluators stop.
C6_WitnessStop ==
    /\ pc = "circuit"
    /\ ev_degree = 4
    /\ Len(ev_vars[1].columns) = 3
    /\ Len(ev_vars[1].helper_columns) = 1
    /\ IsAbort(ev_native)
    /\ IsAbort(ev_circuit)

---------------------------------------------------------------------------
(* The shrinking chains of one table: RecursiveCircuitsForTable::new over  *)
(* a range of sizes, RecursiveCircuitsForTableSize::new for each size, and *)
(* the lookup of a chain in prove_root.                                    *)

THRESHOLD_DEGREE_BITS == 13

RANGE_TABLES ==
    <<"ARITHMETIC", "CPU", "POSEIDON", "POSEIDON_SPONGE", "KECCAK", "KECCAK_SPONGE",
      "SHA_EXTEND", "SHA_EXTEND_SPONGE", "SHA_COMPRESS", "SHA_COMPRESS_SPONGE",
      "LOGIC", "MEMORY">>

NotBuilt == [tag |-> "NotBuilt"]

\* by_stark_size once RecursiveCircuitsForTable::new has returned.
Built(map) == [tag |-> "Built", map |-> map]

\* A circuit: which wrapper of which size's chain it is, and its degree_bits.
InitialCircuit(size, bits) ==
    [kind |-> "initial", size |-> size, index |-> 0, degree_bits |-> bits]

ShrinkingCircuit(size, index, bits) ==
    [kind |-> "shrinking", size |-> size, index |-> index, degree_bits |-> bits]

\* The degree_bits recursive_stark_circuit can give the initial wrapper: it
\* pads the circuit to min_degree_bits = THRESHOLD_DEGREE_BITS.
InitialDegreeBits == THRESHOLD_DEGREE_BITS .. MaxCircuitBits

\* The degree_bits builder.build() can give a shrinking circuit.
BuildDegreeBits == (THRESHOLD_DEGREE_BITS - 1) .. MaxCircuitBits

\* `last`: the last shrinking wrapper's circuit, or the initial wrapper's.
LastCircuit(initial, shrinking) ==
    IF Len(shrinking) = 0 THEN initial ELSE shrinking[Len(shrinking)]

LoopExitAtMost(last_degree_bits) ==
    IF last_degree_bits <= THRESHOLD_DEGREE_BITS THEN "break" ELSE "build"

\* The head of the shrinking loop: the assertion, then the break.
LoopExit(last_degree_bits) ==
    IF ~(last_degree_bits >= THRESHOLD_DEGREE_BITS) THEN "abort"
    ELSE IF last_degree_bits = THRESHOLD_DEGREE_BITS THEN "break"
    ELSE "build"

ShrinksOrStalls(circuit_bits, last_degree_bits) == circuit_bits <= last_degree_bits

\* The assertion on the circuit just built.
Shrinks(circuit_bits, last_degree_bits) == circuit_bits < last_degree_bits

RecursiveCircuitsForTableSizeNew(initial, shrinking) ==
    [initial_wrapper |-> initial, shrinking_wrappers |-> shrinking]

EmptyMap == [size \in {} |-> NotBuilt]

\* The keys of a BTreeMap in increasing order.
RECURSIVE SortedKeys(_)
SortedKeys(S) ==
    IF S = {} THEN <<>> ELSE <<SetMin(S)>> \o SortedKeys(S \ {SetMin(S)})

FinalCircuitsFirst(map) ==
    [k \in 1 .. Cardinality(DOMAIN map) |->
        LET chain == map[SortedKeys(DOMAIN map)[k]]
        IN  IF Len(chain.shrinking_wrappers) = 0 THEN chain.initial_wrapper
            ELSE chain.shrinking_wrappers[1]]

\* final_circuits: for every size in order, the circuit at the end of its
\* chain.
FinalCircuits(map) ==
    [k \in 1 .. Cardinality(DOMAIN map) |->
        LET chain == map[SortedKeys(DOMAIN map)[k]]
        IN  LastCircuit(chain.initial_wrapper, chain.shrinking_wrappers)]

MissingCircuits(table, size) ==
    [tag |-> "Err", table |-> table, size |-> size, variable |-> RANGE_TABLES[table + 1],
     range_start |-> size, range_end |-> size + 1]

ProveRootLookupByPosition(map, table, size) ==
    IF size < Cardinality(DOMAIN map)
    THEN Ok([chain |-> map[SortedKeys(DOMAIN map)[size + 1]],
             index_verifier_data |-> size])
    ELSE MissingCircuits(table, size)

\* prove_root, for one table: the chain of the proof's size, and its
\* position among the keys.
ProveRootLookup(map, table, size) ==
    IF size \in DOMAIN map
    THEN Ok([chain |-> map[size],
             index_verifier_data |-> Cardinality({k \in DOMAIN map : k < size})])
    ELSE MissingCircuits(table, size)

\* The parts of a circuit's CircuitData: the common data hold degree_bits,
\* the prover-only and verifier-only data identify the circuit.
CommonOf(data) == [degree_bits |-> data.degree_bits]

ProverOnlyOf(data) == [kind |-> data.kind, size |-> data.size, index |-> data.index]

VerifierOnlyOf(data) == [kind |-> data.kind, size |-> data.size, index |-> data.index]

\* The assertion of create_root_circuit: every final circuit of the table has
\* the common data of the first.
CommonDataMatch(final_circuits) ==
    \A k \in 1 .. Len(final_circuits) :
        CommonOf(final_circuits[k]) = CommonOf(final_circuits[1])

IsPowerOfTwo(n) == \E e \in 0 .. n : 2 ^ e = n

\* The loop of create_root_circuit that pushes copies of the first key until
\* the length is a power of two.
RECURSIVE PadVks(_)
PadVks(vks) ==
    IF IsPowerOfTwo(Len(vks)) THEN vks ELSE PadVks(Append(vks, vks[1]))

PossibleVksDescending(final_circuits) ==
    PadVks([k \in 1 .. Len(final_circuits) |->
               VerifierOnlyOf(final_circuits[Len(final_circuits) + 1 - k])])

\* possible_vks: the verifier-only data of the final circuits in order,
\* padded.
PossibleVks(final_circuits) ==
    PadVks([k \in 1 .. Len(final_circuits) |-> VerifierOnlyOf(final_circuits[k])])

\* random_access_verifier_data: the entry of the list at the index; no
\* assignment satisfies the gate for an index outside the list.
RandomAccessVerifierData(index, vks) ==
    IF index < Len(vks) THEN Ok(vks[index + 1]) ELSE Aborted("RandomAccess")

InitChain ==
    /\ pc = "range"
    /\ chain_table \in 0 .. MaxTable
    /\ degree_bits_range \in (0 .. MaxStarkBits) \X (0 .. MaxStarkBits)
    /\ degree_bits = degree_bits_range[1]
    /\ initial_wrapper = None
    /\ shrinking_wrappers = <<>>
    /\ circuit = None
    /\ builds = 0
    /\ collected = EmptyMap
    /\ by_stark_size = NotBuilt
    /\ root_size = None
    /\ root_result = NotRun
    /\ possible_vks = NotRun
    /\ IdleLookups /\ IdleSums /\ IdleCheck /\ IdleEval /\ IdleAggregation
    /\ IdleLeBytes /\ IdleEvalOld /\ IdleAssociativity /\ IdleVerifyBlock /\ IdleVerifyCircuit /\ IdleLayout /\ IdleBlock /\ IdleRoot /\ IdleSerial /\ IdleNew /\ IdleSha /\ IdleEvalTable

\* RecursiveCircuitsForTableSize::new starts on the next size of the range:
\* the initial wrapper is built.
InitialWrapper ==
    /\ pc = "range"
    /\ degree_bits < degree_bits_range[2]
    /\ \E bits \in InitialDegreeBits :
           initial_wrapper' = InitialCircuit(degree_bits, bits)
    /\ shrinking_wrappers' = <<>>
    /\ builds' = 0
    /\ pc' = "loop"
    /\ UNCHANGED <<chain_table, degree_bits_range, degree_bits, circuit, collected,
                   by_stark_size, root_size, root_result, possible_vks>>
    /\ UNCHANGED vars_not_chain

\* The head of the loop finds the last circuit below the threshold.
LoopAbort ==
    /\ pc = "loop"
    /\ LoopExit(LastCircuit(initial_wrapper, shrinking_wrappers).degree_bits) = "abort"
    /\ pc' = "aborted"
    /\ UNCHANGED vars_chain
    /\ UNCHANGED vars_not_chain

\* The head of the loop finds the last circuit at the threshold: the chain
\* is returned and joins the chains collected for by_stark_size.
LoopBreak ==
    /\ pc = "loop"
    /\ LoopExit(LastCircuit(initial_wrapper, shrinking_wrappers).degree_bits) = "break"
    /\ collected' =
           collected @@ (degree_bits :>
               RecursiveCircuitsForTableSizeNew(initial_wrapper, shrinking_wrappers))
    /\ degree_bits' = degree_bits + 1
    /\ pc' = "range"
    /\ UNCHANGED <<chain_table, degree_bits_range, initial_wrapper,
                   shrinking_wrappers, circuit, builds, by_stark_size, root_size,
                   root_result, possible_vks>>
    /\ UNCHANGED vars_not_chain

\* The loop builds the circuit that verifies a proof of the last one.
LoopBuild ==
    /\ pc = "loop"
    /\ LoopExit(LastCircuit(initial_wrapper, shrinking_wrappers).degree_bits) = "build"
    /\ builds <= MaxCircuitBits
    /\ \E bits \in BuildDegreeBits :
           circuit' = ShrinkingCircuit(degree_bits, Len(shrinking_wrappers) + 1, bits)
    /\ builds' = builds + 1
    /\ pc' = "built"
    /\ UNCHANGED <<chain_table, degree_bits_range, degree_bits, initial_wrapper,
                   shrinking_wrappers, collected, by_stark_size, root_size,
                   root_result, possible_vks>>
    /\ UNCHANGED vars_not_chain

\* The assertion on the circuit just built, and the push.
LoopPush ==
    /\ pc = "built"
    /\ IF Shrinks(circuit.degree_bits,
                  LastCircuit(initial_wrapper, shrinking_wrappers).degree_bits)
       THEN /\ shrinking_wrappers' = Append(shrinking_wrappers, circuit)
            /\ pc' = "loop"
       ELSE /\ shrinking_wrappers' = shrinking_wrappers
            /\ pc' = "aborted"
    /\ UNCHANGED <<chain_table, degree_bits_range, degree_bits, initial_wrapper,
                   circuit, builds, collected, by_stark_size, root_size, root_result, possible_vks>>
    /\ UNCHANGED vars_not_chain

\* RecursiveCircuitsForTable::new returns: the range is exhausted and the
\* chains are collected into by_stark_size.
Collect ==
    /\ pc = "range"
    /\ ~(degree_bits < degree_bits_range[2])
    /\ by_stark_size' = Built(collected)
    /\ pc' = "preprocessed"
    /\ UNCHANGED <<chain_table, degree_bits_range, degree_bits, initial_wrapper,
                   shrinking_wrappers, circuit, builds, collected, root_size,
                   root_result, possible_vks>>
    /\ UNCHANGED vars_not_chain

\* create_root_circuit, for one table: it takes final_circuits()[0], asserts
\* that every final circuit has its common data, and pads the list of keys.
CreateRootCircuit ==
    /\ pc = "preprocessed"
    /\ LET final_circuits == FinalCircuits(by_stark_size.map)
       IN  IF Len(final_circuits) = 0 \/ ~CommonDataMatch(final_circuits)
           THEN /\ pc' = "aborted_root"
                /\ possible_vks' = possible_vks
           ELSE /\ pc' = "ready"
                /\ possible_vks' = PossibleVks(final_circuits)
    /\ UNCHANGED <<chain_table, degree_bits_range, degree_bits, initial_wrapper,
                   shrinking_wrappers, circuit, builds, collected, by_stark_size,
                   root_size, root_result>>
    /\ UNCHANGED vars_not_chain

\* prove_root looks up the chain for the size recovered from the proof.
ProveRoot ==
    /\ pc = "ready"
    /\ \E size \in 0 .. (MaxStarkBits + 1) :
           /\ root_size' = size
           /\ root_result' = ProveRootLookup(by_stark_size.map, chain_table, size)
    /\ pc' = "proved"
    /\ UNCHANGED <<chain_table, degree_bits_range, degree_bits, initial_wrapper,
                   shrinking_wrappers, circuit, builds, collected, by_stark_size,
                   possible_vks>>
    /\ UNCHANGED vars_not_chain

NextChain ==
    \/ InitialWrapper
    \/ LoopAbort
    \/ LoopBreak
    \/ LoopBuild
    \/ LoopPush
    \/ Collect
    \/ CreateRootCircuit
    \/ ProveRoot

SpecChain == InitChain /\ [][NextChain]_vars

\* The construction is sequential code: a step that can be taken is taken.
SpecChainFair == SpecChain /\ WF_vars(NextChain)

---------------------------------------------------------------------------
(* Claims about the shrinking chains.                                      *)

InShrinkingLoop == pc \in {"loop", "built"}

\* C7: the construction of a chain terminates: while the shrinking loop
\* runs on an initial wrapper of degree_bits d it has built at most
\* d - THRESHOLD_DEGREE_BITS circuits (one per iteration), and it always
\* leaves the loop, by returning the chain or by aborting.
C7_ChainTerminates ==
    /\ [](InShrinkingLoop =>
             builds <= initial_wrapper.degree_bits - THRESHOLD_DEGREE_BITS)
    /\ (InShrinkingLoop ~> ~InShrinkingLoop)

\* Witness for C7: a chain was returned after as many iterations as the
\* bound allows, each shrinking by one bit.
C7_Witness ==
    /\ pc = "range"
    /\ initial_wrapper # None
    /\ initial_wrapper.degree_bits = MaxCircuitBits
    /\ builds = MaxCircuitBits - THRESHOLD_DEGREE_BITS
    /\ (degree_bits - 1) \in DOMAIN collected
    /\ Len(collected[degree_bits - 1].shrinking_wrappers) = builds

\* Second witness shape for C7: the loop ended by aborting in its last
\* allowed iteration.
C7_WitnessAbort ==
    /\ pc = "aborted"
    /\ builds = initial_wrapper.degree_bits - THRESHOLD_DEGREE_BITS
    /\ builds > 1

\* degree_bits of the initial wrapper, then of each shrinking wrapper.
ChainDegreeBits(chain) ==
    <<chain.initial_wrapper.degree_bits>>
        \o [k \in 1 .. Len(chain.shrinking_wrappers) |->
               chain.shrinking_wrappers[k].degree_bits]

StrictlyDecreasing(bits) == \A k \in 1 .. (Len(bits) - 1) : bits[k] > bits[k + 1]

\* The position (from 1) of a key among the keys of by_stark_size.
KeyPosition(size) == Cardinality({k \in DOMAIN by_stark_size.map : k <= size})

\* C8: every chain RecursiveCircuitsForTableSize::new returns has strictly
\* decreasing degree_bits that end at THRESHOLD_DEGREE_BITS, and no
\* shrinking wrapper when the initial wrapper is at the threshold already;
\* final_circuits gives, for every size, the circuit that ends its chain: of
\* degree_bits 13, and the initial wrapper's circuit when that chain has no
\* shrinking wrapper.
C8_ChainShape ==
    /\ \A size \in DOMAIN collected :
           LET bits == ChainDegreeBits(collected[size])
           IN  /\ StrictlyDecreasing(bits)
               /\ bits[Len(bits)] = 13
               /\ bits[1] = 13 => collected[size].shrinking_wrappers = <<>>
    /\ by_stark_size # NotBuilt =>
           \A size \in DOMAIN by_stark_size.map :
               LET final == FinalCircuits(by_stark_size.map)[KeyPosition(size)]
               IN  /\ final.degree_bits = 13
                   /\ final.size = size
                   /\ by_stark_size.map[size].initial_wrapper.degree_bits = 13
                          => final = by_stark_size.map[size].initial_wrapper

\* Witness for C8: by_stark_size holds a chain with two shrinking wrappers
\* and, for a later size, a chain whose initial wrapper is at the threshold.
C8_Witness ==
    /\ pc = "ready"
    /\ \E s1, s2 \in DOMAIN by_stark_size.map :
           /\ s1 < s2
           /\ Len(by_stark_size.map[s1].shrinking_wrappers) = 2
           /\ by_stark_size.map[s2].initial_wrapper.degree_bits = 13
           /\ FinalCircuits(by_stark_size.map)[KeyPosition(s2)]
                  = by_stark_size.map[s2].initial_wrapper
           /\ FinalCircuits(by_stark_size.map)[KeyPosition(s1)].kind = "shrinking"

LastDegreeBits == LastCircuit(initial_wrapper, shrinking_wrappers).degree_bits

NotShrunk == pc = "built" /\ ~(circuit.degree_bits < LastDegreeBits)

BelowThreshold == pc = "loop" /\ LastDegreeBits < 13

\* C9: a shrink step whose circuit is not strictly smaller than the previous
\* one, or a last circuit below the threshold, makes the construction abort
\* at once without returning a chain, and once it has aborted by_stark_size
\* is never stored.
C9_AbortStoresNothing ==
    /\ [][(NotShrunk \/ BelowThreshold) =>
             /\ pc' = "aborted"
             /\ collected' = collected
             /\ by_stark_size' = NotBuilt]_vars
    /\ [](pc = "aborted" => by_stark_size = NotBuilt)

\* Witness for C9: the construction aborted on a circuit that did not shrink
\* after chains for smaller sizes had been returned and a shrinking wrapper
\* had been pushed.
C9_Witness ==
    /\ pc = "aborted"
    /\ circuit # None
    /\ circuit.degree_bits >= LastDegreeBits
    /\ LastDegreeBits > 13
    /\ Len(shrinking_wrappers) >= 1
    /\ DOMAIN collected # {}
    /\ by_stark_size = NotBuilt

\* Second witness shape for C9: the construction aborted on a last circuit
\* below the threshold.
C9_WitnessBelow ==
    /\ pc = "aborted"
    /\ Len(shrinking_wrappers) >= 1
    /\ LastDegreeBits < 13
    /\ by_stark_size = NotBuilt

\* C10: after a table was preprocessed with the range a..b, prove_root finds
\* a chain exactly for the sizes s with a <= s < b, and it is the chain built
\* for s; for any other size it returns the error that names the table, the
\* size s and the range s..s+1 for the table's variable.
C10_LookupBySize ==
    pc = "proved" =>
        IF degree_bits_range[1] <= root_size /\ root_size < degree_bits_range[2]
        THEN /\ root_result.tag = "Ok"
             /\ root_result.val.chain.initial_wrapper.size = root_size
             /\ \A k \in 1 .. Len(root_result.val.chain.shrinking_wrappers) :
                    root_result.val.chain.shrinking_wrappers[k].size = root_size
             /\ root_result.val.chain = by_stark_size.map[root_size]
             /\ root_result.val.index_verifier_data
                    = root_size - degree_bits_range[1]
        ELSE root_result =
                 [tag |-> "Err", table |-> chain_table, size |-> root_size,
                  variable |-> RANGE_TABLES[chain_table + 1],
                  range_start |-> root_size, range_end |-> root_size + 1]

\* Witness for C10: a range of two sizes starting above 0, and the lookup
\* of its second size gave the chain built for it.
C10_Witness ==
    /\ pc = "proved"
    /\ degree_bits_range[1] > 0
    /\ degree_bits_range[2] = degree_bits_range[1] + 2
    /\ root_size = degree_bits_range[1] + 1
    /\ root_result.tag = "Ok"
    /\ Len(root_result.val.chain.shrinking_wrappers) > 0

\* Second witness shape for C10: the size just past the range gave the
\* error.
C10_WitnessMissing ==
    /\ pc = "proved"
    /\ root_size = degree_bits_range[2]
    /\ root_result.tag = "Err"
    /\ root_result.variable = "CPU"

---------------------------------------------------------------------------
(* The aggregation and block circuits: the public values of a receipt, the *)
(* connections create_aggregation_circuit and create_block_circuit add,    *)
(* and the witnesses prove_aggregation and prove_block assign.             *)

RootLimbs == 8

\* F::from_canonical_u32 and F::from_canonical_u8: a limb or byte as a field
\* element (limbs and bytes stay below the order of the field).
FromCanonicalU32(v) == v % P

FromCanonicalU8(v) == v % P

\* MemRoots values: RootLimbs limbs each.
AllMemRoots ==
    {[root |-> [k \in 1 .. RootLimbs |-> (v * k) % (MaxLimb + 1)]] : v \in 0 .. MaxLimb}

AllUserdata ==
    {[k \in 1 .. UserdataLen |-> (v * k) % (MaxByte + 1)] : v \in 0 .. MaxByte}

PublicValuesNew(before, after, data) ==
    [roots_before |-> before, roots_after |-> after, userdata |-> data]

AllPublicValues ==
    {PublicValuesNew(b, a, u) : b \in AllMemRoots, a \in AllMemRoots, u \in AllUserdata}

\* set_public_value_targets: the values the public-value targets get.
SetPublicValueTargets(values) ==
    [roots_before |-> [k \in 1 .. RootLimbs |->
                          FromCanonicalU32(values.roots_before.root[k])],
     roots_after |-> [k \in 1 .. RootLimbs |->
                         FromCanonicalU32(values.roots_after.root[k])],
     userdata |-> [k \in 1 .. Len(values.userdata) |->
                      FromCanonicalU8(values.userdata[k])]]

\* The public inputs of a proof whose public-value targets carry pv:
\* roots_before, roots_after, then userdata.
PublicInputsOf(pv) == pv.roots_before \o pv.roots_after \o pv.userdata

\* PublicValuesTarget::from_public_inputs.
FromPublicInputs(pis) ==
    [roots_before |-> SubSeq(pis, 1, RootLimbs),
     roots_after |-> SubSeq(pis, RootLimbs + 1, 2 * RootLimbs),
     userdata |-> SubSeq(pis, 2 * RootLimbs + 1, Len(pis))]

\* A proof: the circuit it is a proof of, and its public inputs.
ProofNew(of_circuit, pis) == [circuit |-> of_circuit, public_inputs |-> pis]

U32ArrayToU8Vec(root) == [u32_array |-> root]

ReceiptClaimNew(elf_id, commit) == [elf_id |-> elf_id, commit |-> commit]

\* Receipt::Segments(inner) and Receipt::Composite(inner, assumption_used).
ReceiptSegments(proof, values, claim) ==
    [variant |-> "Segments", proof |-> proof, values |-> values, claim |-> claim,
     assumption_used |-> <<>>]

ReceiptComposite(proof, values, claim, assumptions) ==
    [variant |-> "Composite", proof |-> proof, values |-> values, claim |-> claim,
     assumption_used |-> assumptions]

\* The receipts prove_root and prove_root_with_assumption return.
RootReceipt(values, commit, composite, assumptions) ==
    LET proof == ProofNew("root", PublicInputsOf(SetPublicValueTargets(values)))
        claim == ReceiptClaimNew(U32ArrayToU8Vec(values.roots_before.root), commit)
    IN  IF composite THEN ReceiptComposite(proof, values, claim, assumptions)
        ELSE ReceiptSegments(proof, values, claim)

AllAssumptions == {<<>>, <<"Proven">>, <<"Unresolved">>}

RootReceipts ==
    {RootReceipt(v, c, FALSE, <<>>) : v \in AllPublicValues, c \in 0 .. MaxCommit}
        \cup {RootReceipt(v, c, TRUE, a) : v \in AllPublicValues,
                  c \in 0 .. MaxCommit, a \in AllAssumptions}

\* PublicValuesTarget::select.
SelectPublicValues(b, pv0, pv1) == IF b THEN pv0 ELSE pv1

\* AggregationChildTarget::public_values, on the values the witness gives
\* the child's is_agg, agg_proof and evm_proof targets.
ChildPublicValues(child) ==
    SelectPublicValues(child.is_agg,
                       FromPublicInputs(child.agg_proof.public_inputs),
                       FromPublicInputs(child.evm_proof.public_inputs))

\* conditionally_verify_cyclic_proof in add_agg_child: the aggregation
\* proof is verified against the circuit itself when is_agg is set, the
\* other proof against the root circuit otherwise.
AddAggChildVerifies(child) ==
    IF child.is_agg THEN child.agg_proof.circuit = "aggregation"
    ELSE child.evm_proof.circuit = "root"

AggregationConnectionsNoChaining(inputs) ==
    LET lhs_public_values == ChildPublicValues(inputs.lhs)
        rhs_public_values == ChildPublicValues(inputs.rhs)
    IN  <<<<inputs.public_values.roots_before, lhs_public_values.roots_before>>,
          <<inputs.public_values.roots_after, rhs_public_values.roots_after>>,
          <<inputs.public_values.userdata, rhs_public_values.userdata>>>>

\* The pairs of targets create_aggregation_circuit connects, as the values
\* a witness gives them.
AggregationConnections(inputs) ==
    LET lhs_public_values == ChildPublicValues(inputs.lhs)
        rhs_public_values == ChildPublicValues(inputs.rhs)
    IN  <<<<inputs.public_values.roots_before, lhs_public_values.roots_before>>,
          <<inputs.public_values.roots_after, rhs_public_values.roots_after>>,
          <<lhs_public_values.roots_after, rhs_public_values.roots_before>>,
          <<inputs.public_values.userdata, lhs_public_values.userdata>>,
          <<inputs.public_values.userdata, rhs_public_values.userdata>>>>

\* A witness satisfies connections when the two sides of each are equal.
Connected(connections) ==
    \A k \in 1 .. Len(connections) : connections[k][1] = connections[k][2]

ProveFailed == [tag |-> "Err", error |-> "prove"]

\* self.aggregation.circuit.prove(agg_inputs).
AggregationCircuitProve(inputs) ==
    IF /\ Connected(AggregationConnections(inputs))
       /\ AddAggChildVerifies(inputs.lhs)
       /\ AddAggChildVerifies(inputs.rhs)
    THEN Ok(ProofNew("aggregation", PublicInputsOf(inputs.public_values)))
    ELSE ProveFailed

\* The witness prove_aggregation assigns.
AggregationInputs(lhs_agg, lhs, rhs_agg, rhs, public_values) ==
    [lhs |-> [is_agg |-> lhs_agg, agg_proof |-> lhs.proof, evm_proof |-> lhs.proof],
     rhs |-> [is_agg |-> rhs_agg, agg_proof |-> rhs.proof, evm_proof |-> rhs.proof],
     public_values |-> SetPublicValueTargets(public_values)]

RECURSIVE InsertEachAtFront(_, _)
\* `for assumption in rhs { assumptions.insert(0, assumption) }`.
InsertEachAtFront(assumptions, more) ==
    IF Len(more) = 0 THEN assumptions
    ELSE InsertEachAtFront(<<Head(more)>> \o assumptions, Tail(more))

AggregatedValuesAfterOfLeft(lhs, rhs) ==
    PublicValuesNew(lhs.values.roots_before, lhs.values.roots_after,
                    rhs.values.userdata)

\* The public values prove_aggregation gives the aggregated proof.
AggregatedValues(lhs, rhs) ==
    PublicValuesNew(lhs.values.roots_before, rhs.values.roots_after,
                    rhs.values.userdata)

AggregationReceiptOfLeft(lhs, rhs, public_values, aggregation_proof) ==
    LET claim == ReceiptClaimNew(lhs.claim.elf_id, rhs.claim.commit)
        assumptions == InsertEachAtFront(lhs.assumption_used, rhs.assumption_used)
    IN  IF Len(assumptions) = 0
        THEN ReceiptSegments(aggregation_proof, lhs.values, claim)
        ELSE ReceiptComposite(aggregation_proof, lhs.values, claim, assumptions)

\* The receipt prove_aggregation builds around the aggregation proof.
AggregationReceipt(lhs, rhs, public_values, aggregation_proof) ==
    LET claim == ReceiptClaimNew(lhs.claim.elf_id, rhs.claim.commit)
        assumptions == InsertEachAtFront(lhs.assumption_used, rhs.assumption_used)
    IN  IF Len(assumptions) = 0
        THEN ReceiptSegments(aggregation_proof, public_values, claim)
        ELSE ReceiptComposite(aggregation_proof, public_values, claim, assumptions)

\* prove_aggregation: the receipt, or the error of the prover.
ProveAggregation(lhs_agg, lhs, rhs_agg, rhs) ==
    LET Returned(public_values, proved) ==
            IF IsAbort(proved) THEN proved
            ELSE Ok(AggregationReceipt(lhs, rhs, public_values, proved.val))
    IN  Returned(AggregatedValues(lhs, rhs),
                 AggregationCircuitProve(
                     AggregationInputs(lhs_agg, lhs, rhs_agg, rhs,
                                       AggregatedValues(lhs, rhs))))

InitAggregation ==
    /\ pc = "children"
    /\ lhs_is_agg \in BOOLEAN
    /\ rhs_is_agg \in BOOLEAN
    /\ lhs_receipt \in RootReceipts
    /\ rhs_receipt \in RootReceipts
    /\ agg_inputs = NotRun
    /\ agg_result = NotRun
    /\ IdleLookups /\ IdleSums /\ IdleCheck /\ IdleEval /\ IdleChain
    /\ IdleLeBytes /\ IdleEvalOld /\ IdleAssociativity /\ IdleVerifyBlock /\ IdleVerifyCircuit /\ IdleLayout /\ IdleBlock /\ IdleRoot /\ IdleSerial /\ IdleNew /\ IdleSha /\ IdleEvalTable

\* prove_aggregation on the two children at hand.
RunProveAggregation ==
    /\ pc = "children"
    /\ agg_inputs' = AggregationInputs(lhs_is_agg, lhs_receipt, rhs_is_agg, rhs_receipt,
                                       AggregatedValues(lhs_receipt, rhs_receipt))
    /\ agg_result' = ProveAggregation(lhs_is_agg, lhs_receipt, rhs_is_agg, rhs_receipt)
    /\ pc' = "aggregated"
    /\ UNCHANGED <<lhs_is_agg, lhs_receipt, rhs_is_agg, rhs_receipt>>
    /\ UNCHANGED vars_not_agg

\* The receipt just returned becomes a child of the next aggregation, on
\* the left or on the right of a root receipt without assumptions.
AggregateFurther ==
    /\ pc = "aggregated"
    /\ ~IsAbort(agg_result)
    /\ \E other \in RootReceipts, left \in BOOLEAN :
           /\ other.assumption_used = <<>>
           /\ lhs_receipt' = IF left THEN agg_result.val ELSE other
           /\ rhs_receipt' = IF left THEN other ELSE agg_result.val
    /\ lhs_is_agg' \in BOOLEAN
    /\ rhs_is_agg' \in BOOLEAN
    /\ agg_inputs' = NotRun
    /\ agg_result' = NotRun
    /\ pc' = "children"
    /\ UNCHANGED vars_not_agg

NextAggregation == RunProveAggregation \/ AggregateFurther

SpecAggregation == InitAggregation /\ [][NextAggregation]_vars

---------------------------------------------------------------------------
(* Claims about prove_aggregation.                                         *)

\* C11: whatever lhs_is_agg and rhs_is_agg are, a receipt prove_aggregation
\* returns has the left child's roots_before, the right child's roots_after
\* and the right child's userdata.
C11_AggregatedRoots ==
    (pc = "aggregated" /\ ~IsAbort(agg_result)) =>
        /\ agg_result.val.values.roots_before = lhs_receipt.values.roots_before
        /\ agg_result.val.values.roots_after = rhs_receipt.values.roots_after
        /\ agg_result.val.values.userdata = rhs_receipt.values.userdata

\* Witness for C11: an aggregation receipt on the left (lhs_is_agg set), a
\* root receipt on the right, and a returned receipt whose roots_before and
\* roots_after differ from each other and from the chaining root.
C11_Witness ==
    /\ pc = "aggregated"
    /\ ~IsAbort(agg_result)
    /\ lhs_is_agg /\ ~rhs_is_agg
    /\ lhs_receipt.proof.circuit = "aggregation"
    /\ agg_result.val.values.roots_before # agg_result.val.values.roots_after
    /\ lhs_receipt.values.roots_after # agg_result.val.values.roots_before
    /\ lhs_receipt.values.roots_after # agg_result.val.values.roots_after

\* Second witness shape for C11: two root receipts, no flag set.
C11_WitnessRoots ==
    /\ pc = "aggregated"
    /\ ~IsAbort(agg_result)
    /\ ~lhs_is_agg /\ ~rhs_is_agg
    /\ agg_result.val.values.roots_before # agg_result.val.values.roots_after

ChildrenChain ==
    /\ lhs_receipt.values.roots_after = rhs_receipt.values.roots_before
    /\ lhs_receipt.values.userdata = rhs_receipt.values.userdata

\* C12: the witness prove_aggregation assigns satisfies the connections of
\* the aggregation circuit between public values exactly when the left
\* child's roots_after is the right child's roots_before and the two
\* children have the same userdata; when either fails, prove_aggregation
\* returns no receipt.
C12_ChainingEnforced ==
    pc = "aggregated" =>
        /\ Connected(AggregationConnections(agg_inputs)) <=> ChildrenChain
        /\ ~ChildrenChain => IsAbort(agg_result)

\* Witness for C12: children that chain through a root that is neither the
\* left child's roots_before nor the right child's roots_after, and a
\* receipt was returned.
C12_Witness ==
    /\ pc = "aggregated"
    /\ ChildrenChain
    /\ ~IsAbort(agg_result)
    /\ lhs_receipt.values.roots_before # lhs_receipt.values.roots_after
    /\ rhs_receipt.values.roots_before # rhs_receipt.values.roots_after

\* Second witness shape for C12: the roots chain, the userdata differ, and
\* no receipt was returned.
C12_WitnessUserdata ==
    /\ pc = "aggregated"
    /\ lhs_receipt.values.roots_after = rhs_receipt.values.roots_before
    /\ lhs_receipt.values.userdata # rhs_receipt.values.userdata
    /\ ~lhs_is_agg /\ ~rhs_is_agg
    /\ IsAbort(agg_result)

\* Third witness shape for C12: equal userdata, roots that do not chain.
C12_WitnessRoots ==
    /\ pc = "aggregated"
    /\ lhs_receipt.values.roots_after # rhs_receipt.values.roots_before
    /\ lhs_receipt.values.userdata = rhs_receipt.values.userdata
    /\ ~lhs_is_agg /\ ~rhs_is_agg
    /\ IsAbort(agg_result)

---------------------------------------------------------------------------
(* The block circuit and prove_block.                                      *)

Some(x) == [tag |-> "Some", val |-> x]

\* The receipts prove_aggregation returns for two root receipts, the left
\* one without assumptions.
AggRootReceipts ==
    LET Returned(lhs, rhs) == ProveAggregation(FALSE, lhs, FALSE, rhs)
    IN  {Returned(l, r).val :
           <<l, r>> \in {c \in RootReceipts \X RootReceipts :
                           /\ c[1].assumption_used = <<>>
                           /\ ~IsAbort(Returned(c[1], c[2]))}}

\* nonzero_pis with keys 8..16 taken from roots_after of the aggregation receipt
NonzeroPisAfterFromAfter(agg_root_receipt) ==
    [key \in 0 .. (2 * RootLimbs + Len(agg_root_receipt.values.userdata) - 1) |->
        IF key < RootLimbs
        THEN FromCanonicalU32(agg_root_receipt.values.roots_before.root[key + 1])
        ELSE IF key < 2 * RootLimbs
        THEN FromCanonicalU32(
                 agg_root_receipt.values.roots_after.root[key - RootLimbs + 1])
        ELSE FromCanonicalU8(agg_root_receipt.values.userdata[key - 2 * RootLimbs + 1])]

\* nonzero_pis of prove_block without a parent: keys 0..8 and 8..16 both
\* carry roots_before of the aggregation receipt, keys from 16 its userdata.
NonzeroPis(agg_root_receipt) ==
    [key \in 0 .. (2 * RootLimbs + Len(agg_root_receipt.values.userdata) - 1) |->
        IF key < RootLimbs
        THEN FromCanonicalU32(agg_root_receipt.values.roots_before.root[key + 1])
        ELSE IF key < 2 * RootLimbs
        THEN FromCanonicalU32(
                 agg_root_receipt.values.roots_before.root[key - RootLimbs + 1])
        ELSE FromCanonicalU8(agg_root_receipt.values.userdata[key - 2 * RootLimbs + 1])]

\* cyclic_base_proof: a proof of no circuit whose public inputs are the
\* given ones at their keys and zero elsewhere.
CyclicBaseProof(num_public_inputs, nonzero_pis) ==
    ProofNew("base", [k \in 1 .. num_public_inputs |->
                         IF (k - 1) \in DOMAIN nonzero_pis THEN nonzero_pis[k - 1]
                         ELSE 0])

\* The public inputs of the block circuit that carry public values.
BlockPublicValueInputs == 2 * RootLimbs + UserdataLen

\* The pairs of targets create_block_circuit connects, as the values a
\* witness gives them.
BlockConnections(inputs) ==
    LET parent_pv == FromPublicInputs(inputs.parent_block_proof.public_inputs)
        agg_pv == FromPublicInputs(inputs.agg_root_proof.public_inputs)
    IN  <<<<inputs.public_values.roots_before, parent_pv.roots_before>>,
          <<inputs.public_values.roots_after, agg_pv.roots_after>>,
          <<parent_pv.roots_after, agg_pv.roots_before>>,
          <<parent_pv.userdata, agg_pv.userdata>>>>

\* conditionally_verify_cyclic_proof_or_dummy and verify_proof in the block
\* circuit: with has_parent_block the parent proof is verified against the
\* block circuit itself (a dummy proof is verified instead without it), and
\* the other proof is always verified against the aggregation circuit.
BlockVerifies(inputs) ==
    /\ inputs.has_parent_block => inputs.parent_block_proof.circuit = "block"
    /\ inputs.agg_root_proof.circuit = "aggregation"

\* self.block.circuit.prove(block_inputs).
BlockCircuitProve(inputs) ==
    IF Connected(BlockConnections(inputs)) /\ BlockVerifies(inputs)
    THEN Ok(ProofNew("block", PublicInputsOf(inputs.public_values)))
    ELSE ProveFailed

\* The witness prove_block assigns.
BlockInputs(opt_parent_block_receipt, agg_root_receipt) ==
    [has_parent_block |-> opt_parent_block_receipt # None,
     parent_block_proof |->
         IF opt_parent_block_receipt # None THEN opt_parent_block_receipt.val.proof
         ELSE CyclicBaseProof(BlockPublicValueInputs, NonzeroPis(agg_root_receipt)),
     agg_root_proof |-> agg_root_receipt.proof,
     public_values |-> SetPublicValueTargets(agg_root_receipt.values)]

\* prove_block: the receipt (the values, claim and variant of the
\* aggregation receipt around the block proof), or the error of the prover.
ProveBlock(opt_parent_block_receipt, agg_root_receipt) ==
    LET Returned(proved) ==
            IF IsAbort(proved) THEN proved
            ELSE IF agg_root_receipt.variant = "Segments"
            THEN Ok(ReceiptSegments(proved.val, agg_root_receipt.values,
                                    agg_root_receipt.claim))
            ELSE Ok(ReceiptComposite(proved.val, agg_root_receipt.values,
                                     agg_root_receipt.claim,
                                     agg_root_receipt.assumption_used))
    IN  Returned(BlockCircuitProve(BlockInputs(opt_parent_block_receipt,
                                               agg_root_receipt)))

InitBlock ==
    /\ pc = "block"
    /\ agg_root_receipts = <<>>
    /\ block_receipts = <<>>
    /\ block_inputs = NotRun
    /\ block_result = NotRun
    /\ IdleLookups /\ IdleSums /\ IdleCheck /\ IdleEval /\ IdleChain
    /\ IdleLeBytes /\ IdleEvalOld /\ IdleAssociativity /\ IdleVerifyBlock /\ IdleVerifyCircuit /\ IdleLayout /\ IdleSerial /\ IdleNew /\ IdleSha /\ IdleEvalTable /\ IdleAggregation /\ IdleRoot

\* prove_block(None, agg_root_receipt): the first block.
ProveFirstBlock ==
    /\ pc = "block"
    /\ Len(agg_root_receipts) = 0
    /\ \E agg_root_receipt \in AggRootReceipts :
           /\ agg_root_receipts' = <<agg_root_receipt>>
           /\ block_inputs' = BlockInputs(None, agg_root_receipt)
           /\ block_result' = ProveBlock(None, agg_root_receipt)
    /\ block_receipts' = IF IsAbort(block_result') THEN block_receipts
                         ELSE Append(block_receipts, block_result'.val)
    /\ UNCHANGED pc
    /\ UNCHANGED vars_not_block

\* prove_block(Some(parent), agg_root_receipt) on the block receipt returned
\* last.
ProveNextBlock ==
    /\ pc = "block"
    /\ Len(agg_root_receipts) \in 1 .. (MaxBlocks - 1)
    /\ ~IsAbort(block_result)
    /\ \E agg_root_receipt \in AggRootReceipts :
           /\ agg_root_receipts' = Append(agg_root_receipts, agg_root_receipt)
           /\ block_inputs' = BlockInputs(Some(block_result.val), agg_root_receipt)
           /\ block_result' = ProveBlock(Some(block_result.val), agg_root_receipt)
    /\ block_receipts' = IF IsAbort(block_result') THEN block_receipts
                         ELSE Append(block_receipts, block_result'.val)
    /\ UNCHANGED pc
    /\ UNCHANGED vars_not_block

NextBlock == ProveFirstBlock \/ ProveNextBlock

SpecBlock == InitBlock /\ [][NextBlock]_vars

---------------------------------------------------------------------------
(* Claims about prove_block.                                               *)

\* The aggregation receipts folded so far chain: each one's roots_after is
\* the next one's roots_before, and they all have the same userdata.
ChainingSequence ==
    \A i \in 1 .. (Len(agg_root_receipts) - 1) :
        /\ agg_root_receipts[i].values.roots_after
               = agg_root_receipts[i + 1].values.roots_before
        /\ agg_root_receipts[i].values.userdata
               = agg_root_receipts[i + 1].values.userdata

\* C13: for a chaining sequence of aggregation receipts folded by
\* prove_block(None, A1), prove_block(Some(B1), A2), ..., the witness of
\* every step satisfies the connections of the block circuit and every
\* block proof is produced.
C13_ChainFolds ==
    (Len(agg_root_receipts) >= 1 /\ ChainingSequence) =>
        /\ Connected(BlockConnections(block_inputs))
        /\ ~IsAbort(block_result)
        /\ Len(block_receipts) = Len(agg_root_receipts)

\* C14: prove_block(None, A) gives the synthetic parent proof the public
\* inputs roots_before = roots_after = A.roots_before and userdata =
\* A.userdata, sets has_parent_block to false, assigns a witness that
\* satisfies every connection of the block circuit, and returns a block
\* receipt with A's public values and claim.
C14_FirstBlock ==
    Len(agg_root_receipts) = 1 =>
        LET A == agg_root_receipts[1]
            assigned == SetPublicValueTargets(A.values)
            parent_inputs == block_inputs.parent_block_proof.public_inputs
        IN  /\ ~block_inputs.has_parent_block
            /\ SubSeq(parent_inputs, 1, RootLimbs) = assigned.roots_before
            /\ SubSeq(parent_inputs, RootLimbs + 1, 2 * RootLimbs)
                   = assigned.roots_before
            /\ SubSeq(parent_inputs, 2 * RootLimbs + 1, Len(parent_inputs))
                   = assigned.userdata
            /\ Connected(BlockConnections(block_inputs))
            /\ ~IsAbort(block_result)
            /\ block_result.val.proof.circuit = "block"
            /\ block_result.val.values = A.values
            /\ block_result.val.claim = A.claim

\* Witness for C14: a first block over an aggregation receipt whose
\* roots_before and roots_after differ and that carries an assumption.
C14_Witness ==
    /\ Len(agg_root_receipts) = 1
    /\ ~IsAbort(block_result)
    /\ agg_root_receipts[1].values.roots_before
           # agg_root_receipts[1].values.roots_after
    /\ agg_root_receipts[1].variant = "Composite"
    /\ block_result.val.variant = "Composite"

---------------------------------------------------------------------------
(* The root circuit.                                                       *)

\* The sponge of the challenger, scaled down: its state is a residue modulo
\* SpongeModulus, an observed element is absorbed into it, and what it
\* gives out (a challenge, the compact state) is the state reduced to
\* 0 .. MaxHashOutput.
SpongeModulus == 7

RecursiveChallengerNew == 0

ObserveElement(sponge, element) == (3 * sponge + element + 1) % SpongeModulus

RECURSIVE ObserveElements(_, _)
ObserveElements(sponge, elements) ==
    IF Len(elements) = 0 THEN sponge
    ELSE ObserveElements(ObserveElement(sponge, Head(elements)), Tail(elements))

\* get_challenge: the challenge and the sponge after it.
GetChallenge(sponge) ==
    [challenge |-> sponge % (MaxHashOutput + 1),
     sponge |-> (2 * sponge + 3) % SpongeModulus]

Compact(sponge) == sponge % (MaxHashOutput + 1)

\* get_grand_product_challenge_target: beta, then gamma.
GetGrandProductChallengeTarget(sponge) ==
    LET beta == GetChallenge(sponge)
        gamma == GetChallenge(beta.sponge)
    IN  [challenge |-> [beta |-> beta.challenge, gamma |-> gamma.challenge],
         sponge |-> gamma.sponge]

\* get_grand_product_challenge_set_target: the challenges drawn so far and
\* the sponge, after n more draws.
RECURSIVE GetGrandProductChallengeSetTarget(_, _, _)
GetGrandProductChallengeSetTarget(sponge, n, drawn) ==
    IF n = 0 THEN [challenges |-> drawn, sponge |-> sponge]
    ELSE LET next == GetGrandProductChallengeTarget(sponge)
         IN  GetGrandProductChallengeSetTarget(next.sponge, n - 1,
                                               Append(drawn, next.challenge))

\* PublicInputs::from_vec: what the public inputs of a table's recursive
\* proof carry.
PublicInputsNew(trace_cap, challenges, before, after, zs_first) ==
    [trace_cap |-> trace_cap, ctl_challenges |-> challenges,
     challenger_state_before |-> before, challenger_state_after |-> after,
     ctl_zs_first |-> zs_first]

\* observe_public_values_target.
ObservePublicValuesTarget(sponge, public_values) ==
    ObserveElements(sponge, PublicInputsOf(public_values))

RECURSIVE ObserveTraceCaps(_, _, _)
ObserveTraceCaps(sponge, proofs, i) ==
    IF i >= NumTables THEN sponge
    ELSE ObserveTraceCaps(ObserveElements(sponge, proofs[i].trace_cap), proofs, i + 1)

RootChallengerPublicValuesFirst(proofs, public_values) ==
    ObserveTraceCaps(ObservePublicValuesTarget(RecursiveChallengerNew, public_values),
                     proofs, 0)

\* The challenger of create_root_circuit when the challenges are drawn: it
\* has observed the trace cap of every table, then the public values.
RootChallenger(proofs, public_values) ==
    ObservePublicValuesTarget(ObserveTraceCaps(RecursiveChallengerNew, proofs, 0),
                              public_values)

\* The pairs of targets create_root_circuit connects: the challenges with
\* those of every table, the compact state with the state before of table
\* 0, the state before of every later table with the state after of the
\* table before it.
RootConnections(proofs, public_values, nc) ==
    LET Pairs(drawn) ==
            [k \in 1 .. (NumTables * nc) |->
                <<drawn.challenges[((k - 1) % nc) + 1],
                  proofs[(k - 1) \div nc].ctl_challenges[((k - 1) % nc) + 1]>>]
            \o <<<<Compact(drawn.sponge), proofs[0].challenger_state_before>>>>
            \o [i \in 1 .. (NumTables - 1) |->
                   <<proofs[i].challenger_state_before,
                     proofs[i - 1].challenger_state_after>>]
    IN  Pairs(GetGrandProductChallengeSetTarget(
                  RootChallenger(proofs, public_values), nc, <<>>))

\* all_cross_table_lookups(): every table but the first looks into the
\* first.
AllCrossTableLookups ==
    <<CrossTableLookupNew([i \in 1 .. (NumTables - 1) |-> PlainTable(i)],
                          PlainTable(0))>>

\* verify_cross_table_lookups_circuit: whether a witness satisfies every
\* connection of a looked Z opening with the sum of the looking ones.
RECURSIVE VerifyCrossTableLookupsCircuitFrom(_, _, _, _, _, _)
VerifyCrossTableLookupsCircuitFrom(ctls, zs, nc, index, c, pos) ==
    IF index > Len(ctls) THEN TRUE
    ELSE IF c >= nc
    THEN VerifyCrossTableLookupsCircuitFrom(ctls, zs, nc, index + 1, 0, pos)
    ELSE LET st == VerifyStep(FilteredLookingTables(ctls[index].looking_tables),
                              ctls[index].looked_table.table, zs, pos)
         IN  /\ ~st.panic
             /\ st.equal
             /\ VerifyCrossTableLookupsCircuitFrom(ctls, zs, nc, index, c + 1, st.pos)

VerifyCrossTableLookupsCircuit(ctls, zs, nc) ==
    VerifyCrossTableLookupsCircuitFrom(ctls, zs, nc, 1, 0, [t \in Tables |-> 0])

\* Whether the root circuit accepts a witness: the connections hold and the
\* cross-table lookups check (the recursive proofs at hand are proofs of
\* the tables' final circuits).
RootCircuitAccepts(proofs, public_values, nc) ==
    /\ Connected(RootConnections(proofs, public_values, nc))
    /\ VerifyCrossTableLookupsCircuit(AllCrossTableLookups,
                                      [t \in Tables |-> proofs[t].ctl_zs_first], nc)

HashOutputs == 0 .. MaxHashOutput

AllPublicInputs(nc) ==
    {PublicInputsNew(<<cap>>, ch, before, after, zs) :
        cap \in 0 .. MaxCap,
        ch \in [1 .. nc -> [beta : HashOutputs, gamma : HashOutputs]],
        before \in HashOutputs, after \in HashOutputs,
        zs \in [1 .. nc -> ZVals]}

InitRoot ==
    /\ pc = "root"
    /\ root_num_challenges \in 1 .. MaxChallenges
    /\ root_pis \in [Tables -> AllPublicInputs(root_num_challenges)]
    /\ root_public_values \in
           {SetPublicValueTargets(PublicValuesNew(r, r, u)) :
               r \in {[root |-> [k \in 1 .. RootLimbs |-> 0]]}, u \in AllUserdata}
    /\ root_accepted = NotRun
    /\ IdleLookups /\ IdleSums /\ IdleCheck /\ IdleEval /\ IdleChain
    /\ IdleLeBytes /\ IdleEvalOld /\ IdleAssociativity /\ IdleVerifyBlock /\ IdleVerifyCircuit /\ IdleLayout /\ IdleSerial /\ IdleNew /\ IdleSha /\ IdleEvalTable /\ IdleAggregation /\ IdleBlock

\* The root circuit on the witness at hand.
CheckRootCircuit ==
    /\ pc = "root"
    /\ root_accepted' = RootCircuitAccepts(root_pis, root_public_values,
                                           root_num_challenges)
    /\ pc' = "checked"
    /\ UNCHANGED <<root_pis, root_public_values, root_num_challenges>>
    /\ UNCHANGED vars_not_rootc

NextRoot == CheckRootCircuit

SpecRoot == InitRoot /\ [][NextRoot]_vars

---------------------------------------------------------------------------
(* Claims about the root circuit.                                          *)

\* What a transcript observes before the challenges are derived: the trace
\* cap of every table from table i on, in table order.
RECURSIVE TraceCapsFrom(_)
TraceCapsFrom(i) ==
    IF i >= NumTables THEN <<>> ELSE root_pis[i].trace_cap \o TraceCapsFrom(i + 1)

RootTranscript == TraceCapsFrom(0) \o PublicInputsOf(root_public_values)

\* The challenges re-derived from that transcript, and the sponge right
\* after they are derived.
RederivedChallenges ==
    GetGrandProductChallengeSetTarget(
        ObserveElements(RecursiveChallengerNew, RootTranscript),
        root_num_challenges, <<>>)

\* C15: the root circuit accepts only if every table's embedded challenge
\* (beta, gamma) of every repetition is the challenge re-derived from a
\* transcript that observed every table's trace cap in table order and then
\* the public values, table 0's challenger state before is the state of
\* that transcript right after the challenges are derived, and every later
\* table's challenger state before is the state after of the table before.
C15_RootAcceptsOnlyIf ==
    (pc = "checked" /\ root_accepted = TRUE) =>
        /\ \A t \in Tables : \A k \in 1 .. root_num_challenges :
               root_pis[t].ctl_challenges[k] = RederivedChallenges.challenges[k]
        /\ root_pis[0].challenger_state_before = Compact(RederivedChallenges.sponge)
        /\ \A i \in 1 .. (NumTables - 1) :
               root_pis[i].challenger_state_before
                   = root_pis[i - 1].challenger_state_after

\* Witness for C15: an accepted witness with two repetitions whose
\* challenges differ, trace caps that differ between tables, and a table
\* whose state before differs from its state after.
C15_Witness ==
    /\ pc = "checked"
    /\ root_accepted = TRUE
    /\ root_num_challenges = 2
    /\ root_pis[0].trace_cap # root_pis[1].trace_cap
    /\ root_pis[0].ctl_challenges[1] # root_pis[0].ctl_challenges[2]
    /\ root_pis[1].challenger_state_before # root_pis[1].challenger_state_after

\* Second witness shape for C15: a witness rejected although the lookups
\* check and the states chain, because a table embeds another challenge.
C15_WitnessRejected ==
    /\ pc = "checked"
    /\ root_accepted = FALSE
    /\ VerifyCrossTableLookupsCircuit(AllCrossTableLookups,
                                      [t \in Tables |-> root_pis[t].ctl_zs_first],
                                      root_num_challenges)
    /\ root_pis[0].challenger_state_before = Compact(RederivedChallenges.sponge)
    /\ \A i \in 1 .. (NumTables - 1) :
           root_pis[i].challenger_state_before = root_pis[i - 1].challenger_state_after
    /\ \A k \in 1 .. root_num_challenges :
           root_pis[0].ctl_challenges[k] = RederivedChallenges.challenges[k]

---------------------------------------------------------------------------
(* Serialisation of the circuits: to_bytes and from_bytes.                 *)

\* A buffer is the sequence of the items written to it.
BufferItem(item, val) == <<[item |-> item, val |-> val]>>

CircuitDataNew(common, prover_only, verifier_only) ==
    [kind |-> prover_only.kind, size |-> prover_only.size,
     index |-> verifier_only.index, degree_bits |-> common.degree_bits]

\* The loop of RecursiveCircuitsForTableSize::to_buffer over the shrinking
\* wrappers from wrapper k on.
RECURSIVE ShrinkingWrappersToBuffer(_, _)
ShrinkingWrappersToBuffer(wrappers, k) ==
    IF k > Len(wrappers) THEN <<>>
    ELSE BufferItem("prover_only", ProverOnlyOf(wrappers[k]))
         \o BufferItem("verifier_only", VerifierOnlyOf(wrappers[k]))
         \o ShrinkingWrappersToBuffer(wrappers, k + 1)

\* RecursiveCircuitsForTableSize::to_buffer: the number of shrinking
\* wrappers, the common data of the first one if there is one, every
\* shrinking wrapper, then the initial wrapper.
TableSizeToBuffer(chain) ==
    BufferItem("usize", Len(chain.shrinking_wrappers))
    \o (IF Len(chain.shrinking_wrappers) # 0
        THEN BufferItem("common", CommonOf(chain.shrinking_wrappers[1]))
        ELSE <<>>)
    \o ShrinkingWrappersToBuffer(chain.shrinking_wrappers, 1)
    \o BufferItem("stark_wrapper", chain.initial_wrapper)

\* RecursiveCircuitsForTable::to_buffer: the number of sizes, then every
\* size with its chain, in the order of the map.
RECURSIVE TableSizesToBuffer(_, _)
TableSizesToBuffer(map, keys) ==
    IF Len(keys) = 0 THEN <<>>
    ELSE BufferItem("usize", Head(keys)) \o TableSizeToBuffer(map[Head(keys)])
         \o TableSizesToBuffer(map, Tail(keys))

TableToBuffer(map) ==
    BufferItem("usize", Cardinality(DOMAIN map))
    \o TableSizesToBuffer(map, SortedKeys(DOMAIN map))

\* AllRecursiveCircuits around the chains of the one table of the model.
AllRecursiveCircuitsNew(map) ==
    [root |-> [circuit |-> "root"], aggregation |-> [circuit |-> "aggregation"],
     block |-> [circuit |-> "block"], by_table |-> <<map>>]

RECURSIVE TablesToBuffer(_, _)
TablesToBuffer(by_table, k) ==
    IF k > Len(by_table) THEN <<>>
    ELSE TableToBuffer(by_table[k]) \o TablesToBuffer(by_table, k + 1)

\* AllRecursiveCircuits::to_bytes.
ToBytes(all_circuits) ==
    BufferItem("root", all_circuits.root)
    \o BufferItem("aggregation", all_circuits.aggregation)
    \o BufferItem("block", all_circuits.block)
    \o TablesToBuffer(all_circuits.by_table, 1)

\* What a read returns: the value and the position after it.
ReadResult(val, pos) == [val |-> val, pos |-> pos]

ReadItem(buffer, pos) == ReadResult(buffer[pos].val, pos + 1)

\* The loop of RecursiveCircuitsForTableSize::from_buffer: every shrinking
\* wrapper is read and gets a clone of the one common data read before it.
RECURSIVE ShrinkingWrappersFromBuffer(_, _, _, _, _)
ShrinkingWrappersFromBuffer(buffer, pos, length, common, wrappers) ==
    IF length = 0 THEN ReadResult(wrappers, pos)
    ELSE ShrinkingWrappersFromBuffer(
             buffer, pos + 2, length - 1, common,
             Append(wrappers,
                    CircuitDataNew(common, ReadItem(buffer, pos).val,
                                   ReadItem(buffer, pos + 1).val)))

\* RecursiveCircuitsForTableSize::from_buffer.
TableSizeFromBuffer(buffer, pos) ==
    LET length == ReadItem(buffer, pos).val
        shrinking ==
            IF length # 0
            THEN ShrinkingWrappersFromBuffer(buffer, pos + 2, length,
                                             ReadItem(buffer, pos + 1).val, <<>>)
            ELSE ReadResult(<<>>, pos + 1)
        initial == ReadItem(buffer, shrinking.pos)
    IN  ReadResult(RecursiveCircuitsForTableSizeNew(initial.val, shrinking.val),
                   initial.pos)

\* The loop of RecursiveCircuitsForTable::from_buffer.
RECURSIVE TableSizesFromBuffer(_, _, _, _)
TableSizesFromBuffer(buffer, pos, length, map) ==
    IF length = 0 THEN ReadResult(map, pos)
    ELSE LET key == ReadItem(buffer, pos)
             table == TableSizeFromBuffer(buffer, key.pos)
         IN  TableSizesFromBuffer(buffer, table.pos, length - 1,
                                  [k \in (DOMAIN map) \cup {key.val} |->
                                      IF k = key.val THEN table.val ELSE map[k]])

TableFromBuffer(buffer, pos) ==
    TableSizesFromBuffer(buffer, pos + 1, ReadItem(buffer, pos).val, EmptyMap)

RECURSIVE TablesFromBuffer(_, _, _, _)
TablesFromBuffer(buffer, pos, count, by_table) ==
    IF count = 0 THEN ReadResult(by_table, pos)
    ELSE LET table == TableFromBuffer(buffer, pos)
         IN  TablesFromBuffer(buffer, table.pos, count - 1,
                              Append(by_table, table.val))

\* AllRecursiveCircuits::from_bytes, for as many tables as were written.
FromBytes(bytes, count) ==
    [root |-> ReadItem(bytes, 1).val, aggregation |-> ReadItem(bytes, 2).val,
     block |-> ReadItem(bytes, 3).val,
     by_table |-> TablesFromBuffer(bytes, 4, count, <<>>).val]

\* to_bytes on the circuits preprocessing has built.
Serialize ==
    /\ pc = "preprocessed"
    /\ ser_bytes' = ToBytes(AllRecursiveCircuitsNew(by_stark_size.map))
    /\ pc' = "serialized"
    /\ UNCHANGED ser_restored
    /\ UNCHANGED vars_not_ser

\* from_bytes on the buffer written.
Deserialize ==
    /\ pc = "serialized"
    /\ ser_restored' = FromBytes(ser_bytes, 1)
    /\ pc' = "restored"
    /\ UNCHANGED ser_bytes
    /\ UNCHANGED vars_not_ser

NextSerial == NextChain \/ Serialize \/ Deserialize

SpecSerial == InitChain /\ [][NextSerial]_vars

---------------------------------------------------------------------------
(* Claims about serialisation.                                             *)

\* C16: for every AllRecursiveCircuits value preprocessing can build,
\* chains with two or more shrinking wrappers included, from_bytes of
\* to_bytes gives the value back: root, aggregation and block data, the
\* sizes of the table, and for every size the initial wrapper and every
\* shrinking wrapper with its own common circuit data, in the same order.
C16_RoundTrip ==
    pc = "restored" => ser_restored = AllRecursiveCircuitsNew(by_stark_size.map)

---------------------------------------------------------------------------
(* CrossTableLookup::new in both engines.                                  *)

CrossTableLookupNewChecksFirst(looking_tables, looked_table) ==
    IF Len(looking_tables) = 0
       \/ Len(looking_tables[1].columns) = Len(looked_table.columns)
    THEN Ok(CrossTableLookupNew(looking_tables, looked_table))
    ELSE Aborted("assertion failed")

\* CrossTableLookup::new of the logUp engine: the assertion that every
\* looking table has as many columns as the looked table, then the value.
CrossTableLookupNewOrAbort(looking_tables, looked_table) ==
    IF \A k \in 1 .. Len(looking_tables) :
           Len(looking_tables[k].columns) = Len(looked_table.columns)
    THEN Ok(CrossTableLookupNew(looking_tables, looked_table))
    ELSE Aborted("assertion failed")

\* CrossTableLookup::new of the grand-product engine.
CrossTableLookupOldOrAbort(looking_tables, looked_table) ==
    IF \A k \in 1 .. Len(looking_tables) :
           Len(looking_tables[k].columns) = Len(looked_table.columns)
    THEN Ok([looking_tables |-> looking_tables, looked_table |-> looked_table])
    ELSE Aborted("assertion failed")

\* Tables with 1 .. MaxColumns columns and no filter.
TablesWithColumns ==
    {TableWithColumnsNew(t, [c \in 1 .. n |-> ColumnSingle(c - 1)], None) :
        t \in Tables, n \in 1 .. MaxColumns}

InitNew ==
    /\ pc = "tables"
    /\ new_looking_tables \in
           UNION {[1 .. n -> TablesWithColumns] : n \in 0 .. MaxLooking}
    /\ new_looked_table \in TablesWithColumns
    /\ new_result = NotRun
    /\ new_result_old = NotRun
    /\ IdleLookups /\ IdleSums /\ IdleCheck /\ IdleEval /\ IdleChain
    /\ IdleLeBytes /\ IdleEvalOld /\ IdleAssociativity /\ IdleVerifyBlock /\ IdleVerifyCircuit /\ IdleLayout /\ IdleSha /\ IdleEvalTable /\ IdleAggregation /\ IdleBlock /\ IdleRoot /\ IdleSerial

\* CrossTableLookup::new of the logUp engine on the tables at hand.
RunCrossTableLookupNew ==
    /\ pc = "tables"
    /\ new_result = NotRun
    /\ new_result' = CrossTableLookupNewOrAbort(new_looking_tables, new_looked_table)
    /\ pc' = IF new_result_old = NotRun THEN "tables" ELSE "constructed"
    /\ UNCHANGED <<new_looking_tables, new_looked_table, new_result_old>>
    /\ UNCHANGED vars_not_newctl

\* CrossTableLookup::new of the grand-product engine on the same tables.
RunCrossTableLookupNewOld ==
    /\ pc = "tables"
    /\ new_result_old = NotRun
    /\ new_result_old' =
           CrossTableLookupOldOrAbort(
               [k \in 1 .. Len(new_looking_tables) |->
                   TableWithColumnsOld(new_looking_tables[k])],
               TableWithColumnsOld(new_looked_table))
    /\ pc' = IF new_result = NotRun THEN "tables" ELSE "constructed"
    /\ UNCHANGED <<new_looking_tables, new_looked_table, new_result>>
    /\ UNCHANGED vars_not_newctl

NextNew == RunCrossTableLookupNew \/ RunCrossTableLookupNewOld

SpecNew == InitNew /\ [][NextNew]_vars

---------------------------------------------------------------------------
(* Claims about CrossTableLookup::new.                                     *)

ColumnCountMismatch ==
    \E k \in 1 .. Len(new_looking_tables) :
        Len(new_looking_tables[k].columns) # Len(new_looked_table.columns)

\* C17: CrossTableLookup::new aborts whenever some looking table has a
\* number of columns different from the looked table's, in both engines
\* (and returns the lookup when there is no such table).
C17_ColumnCountsChecked ==
    /\ new_result # NotRun => (IsAbort(new_result) <=> ColumnCountMismatch)
    /\ new_result_old # NotRun => (IsAbort(new_result_old) <=> ColumnCountMismatch)

\* Witness for C17: the first looking table matches the looked table, the
\* second does not, and both constructors aborted.
C17_Witness ==
    /\ pc = "constructed"
    /\ Len(new_looking_tables) = 2
    /\ Len(new_looking_tables[1].columns) = Len(new_looked_table.columns)
    /\ Len(new_looking_tables[2].columns) # Len(new_looked_table.columns)
    /\ IsAbort(new_result)
    /\ IsAbort(new_result_old)

\* Second witness shape for C17: matching tables, both lookups returned.
C17_WitnessReturned ==
    /\ pc = "constructed"
    /\ Len(new_looking_tables) = 2
    /\ ~ColumnCountMismatch
    /\ ~IsAbort(new_result)
    /\ ~IsAbort(new_result_old)

---------------------------------------------------------------------------
(* Claims about the non-binary filter failure and the shape of Z.          *)

\* The pairs whose filter has a value other than 0 or 1 on some row.
NonBinaryPairs ==
    {i \in PairIndices : \E row \in SumRowsOf : PairFilterAt(i, row) \notin {0, 1}}

\* Pair i is evaluated to the end and its batch inversion meets a zero.
InversionFails(i) ==
    /\ i \notin NonBinaryPairs
    /\ \E row \in SumRowsOf : PairFilterAt(i, row) = 1 /\ PairCombinedAt(i, row) = 0

\* get_helper_cols gets as far as evaluating a filter with a value other
\* than 0 or 1: no pair before the first such pair stops it.
ReachesNonBinaryFilter ==
    /\ NonBinaryPairs # {}
    /\ \A k \in 1 .. (SetMin(NonBinaryPairs) - 1) : ~InversionFails(k)

C18_WitnessLastRow ==
    /\ pc = "aborted"
    /\ Len(ps_columns_filters) = 1
    /\ PairFilterAt(1, 0) = 0
    /\ PairFilterAt(1, TraceLen(ps_trace) - 1) \notin {0, 1}
    /\ ps_result.tag = "NonBinaryFilter"

\* Third witness shape for C18: the batch inversion of an earlier pair
\* fails before the non-binary filter of a later pair is evaluated.
C18_WitnessInversionFirst ==
    /\ pc = "aborted"
    /\ NonBinaryPairs # {}
    /\ ~ReachesNonBinaryFilter
    /\ ps_result.tag = "InvertZero"

\* The sum over the returned helper columns of their value at a row (rows
\* from 0); with a single pair, the one helper column is the inverse of the
\* pair's combination where its filter is 1.
ReturnedHelperSum(row) ==
    IF Len(ps_columns_filters) = 1 THEN SelectedInverseSum({1} \X {row})
    ELSE HelperRowSum(SubSeq(ps_result.val, 1, Len(ps_result.val) - 1), row + 1)

\* C20: for a trace of n rows partial_sums returns Z with Z[n-1] the sum
\* of all helper columns at row n-1 and Z[i] = Z[i+1] + the sum of all
\* helper columns at row i for i < n-1, so that Z[0] is the total over all
\* rows; with one (columns, filter) pair it returns Z alone, with k > 1
\* pairs the helper columns followed by Z as the last column.
C20_ZRunsUpward ==
    pc \in {"summed", "evaluated"} =>
        LET cols == ps_result.val
            z == cols[Len(cols)]
            n == TraceLen(ps_trace)
            k == Len(ps_columns_filters)
        IN  /\ Len(z) = n
            /\ z[n] = ReturnedHelperSum(n - 1)
            /\ \A i \in 0 .. (n - 2) : z[i + 1] = FAdd(z[i + 2], ReturnedHelperSum(i))
            /\ z[1] = SelectedInverseSum(PairIndices \X SumRowsOf)
            /\ k = 1 => Len(cols) = 1
            /\ k > 1 =>
                   /\ Len(cols) = ((k + ConstraintDegree - 2) \div (ConstraintDegree - 1)) + 1
                   /\ \A j \in 1 .. (Len(cols) - 1) : \A row \in SumRowsOf :
                          cols[j][row + 1] = SelectedInverseSum(ChunkPairs(j) \X {row})

\* Witness for C20: three pairs, so two helper columns before Z, and a Z
\* that differs between the first and the last row, both nonzero.
C20_Witness ==
    /\ pc = "summed"
    /\ Len(ps_columns_filters) = 3
    /\ Len(ps_result.val) = 3
    /\ ps_result.val[3][1] # ps_result.val[3][TraceLen(ps_trace)]
    /\ ps_result.val[3][TraceLen(ps_trace)] # 0
    /\ ps_result.val[1] # ps_result.val[3]
    /\ ps_result.val[2] # ps_result.val[3]

\* Second witness shape for C20: one pair, Z alone, selected on every row.
C20_WitnessSinglePair ==
    /\ pc = "summed"
    /\ Len(ps_columns_filters) = 1
    /\ Len(ps_result.val) = 1
    /\ \A row \in SumRowsOf : PairFilterAt(1, row) = 1
    /\ ps_result.val[1][1] # ps_result.val[1][TraceLen(ps_trace)]

---------------------------------------------------------------------------
(* The SHA-extend sponge table: generate_rows_for_op and compute_w_i.      *)
(* A u32 is kept as its two 16 bit halves [hi, lo], so that every          *)
(* intermediate value stays exact; its value is hi * 2^16 + lo.            *)

\* width of a message-schedule word, and of one half of it
WordBits == 32

HalfBits == WordBits \div 2

\* NUM_ROUNDS: the number of message-schedule extension rounds
NUM_ROUNDS == 48

\* the number of input words of one extension step (virt: [usize; 4])
NumExtendInput == 4

RECURSIVE Pow2(_)
Pow2(n) == IF n = 0 THEN 1 ELSE 2 * Pow2(n - 1)

HalfModulus == Pow2(HalfBits)

U32(hi, lo) == [hi |-> hi, lo |-> lo]

\* op.input[get_input_range(i)]: the 32 elements of input word i, where
\* crate::sha_extend::logic::get_input_range(i) is i * 32..(i + 1) * 32
InputSlice(input, i) == [k \in 1..WordBits |-> input[i * WordBits + k]]

RECURSIVE BitsToHalf(_, _, _)
\* the sum of 2^j over the positions j < n where bits[from + j] is one
BitsToHalf(bits, from, n) == IF n = 0 THEN 0 ELSE (IF bits[from] = 1 THEN 1 ELSE 0) + 2 * BitsToHalf(bits, from + 1, n - 1)

\* crate::sha_extend::logic::from_be_bits_to_u32: element i of the array is
\* bit i of the value (the layout test_correction builds the inputs in)
FromBeBitsToU32(bits) == U32(BitsToHalf(bits, HalfBits + 1, HalfBits), BitsToHalf(bits, 1, HalfBits))

\* crate::sha_extend::logic::from_u32_to_be_bits: element i is (value >> i) & 1
FromU32ToBeBits(value) == [k \in 1..WordBits |-> IF k <= HalfBits THEN (value.lo \div Pow2(k - 1)) % 2 ELSE (value.hi \div Pow2(k - 1 - HalfBits)) % 2]

\* u32 >> n for 0 <= n < 32
ShiftRight(x, n) == IF n >= HalfBits THEN U32(0, x.hi \div Pow2(n - HalfBits)) ELSE U32(x.hi \div Pow2(n), (x.lo \div Pow2(n)) + (x.hi % Pow2(n)) * Pow2(HalfBits - n))

\* u32::rotate_right(n) for 0 <= n < 32
RotateRight(x, n) == LET Rot(y, m) == U32((y.hi \div Pow2(m)) + (y.lo % Pow2(m)) * Pow2(HalfBits - m), (y.lo \div Pow2(m)) + (y.hi % Pow2(m)) * Pow2(HalfBits - m)) IN IF n >= HalfBits THEN Rot(U32(x.lo, x.hi), n - HalfBits) ELSE Rot(x, n)

RECURSIVE XorHalf(_, _, _)
XorHalf(a, b, n) == IF n = 0 THEN 0 ELSE ((a + b) % 2) + 2 * XorHalf(a \div 2, b \div 2, n - 1)

\* u32 ^ u32
BitXor(x, y) == U32(XorHalf(x.hi, y.hi, HalfBits), XorHalf(x.lo, y.lo, HalfBits))

\* u32::wrapping_add: the sum modulo 2^32; it has no failing case
WrappingAdd(x, y) == U32((x.hi + y.hi + ((x.lo + y.lo) \div HalfModulus)) % HalfModulus, (x.lo + y.lo) % HalfModulus)

\* compute_w_i with s0 taken from w_i_minus_2 and s1 from w_i_minus_15
ComputeWISwapped(row) == LET w_i_minus_15 == FromBeBitsToU32(row.w_i_minus_15) w_i_minus_2 == FromBeBitsToU32(row.w_i_minus_2) w_i_minus_16 == FromBeBitsToU32(row.w_i_minus_16) w_i_minus_7 == FromBeBitsToU32(row.w_i_minus_7) s0 == BitXor(BitXor(RotateRight(w_i_minus_2, 7), RotateRight(w_i_minus_2, 18)), ShiftRight(w_i_minus_2, 3)) s1 == BitXor(BitXor(RotateRight(w_i_minus_15, 17), RotateRight(w_i_minus_15, 19)), ShiftRight(w_i_minus_15, 10)) w_i_u32 == WrappingAdd(WrappingAdd(WrappingAdd(s1, w_i_minus_16), s0), w_i_minus_7) w_i_bin == FromU32ToBeBits(w_i_u32) IN [k \in 1..WordBits |-> FromCanonicalU32(w_i_bin[k])]

\* compute_w_i: the four words are read from their bit columns, s0 and s1
\* are formed, the four terms are added with wrapping_add and the sum is
\* written back as 32 bit columns
ComputeWI(row) ==
    LET w_i_minus_15 == FromBeBitsToU32(row.w_i_minus_15)
        w_i_minus_2 == FromBeBitsToU32(row.w_i_minus_2)
        w_i_minus_16 == FromBeBitsToU32(row.w_i_minus_16)
        w_i_minus_7 == FromBeBitsToU32(row.w_i_minus_7)
        s0 == BitXor(BitXor(RotateRight(w_i_minus_15, 7), RotateRight(w_i_minus_15, 18)),
                     ShiftRight(w_i_minus_15, 3))
        s1 == BitXor(BitXor(RotateRight(w_i_minus_2, 17), RotateRight(w_i_minus_2, 19)),
                     ShiftRight(w_i_minus_2, 10))
        w_i_u32 == WrappingAdd(WrappingAdd(WrappingAdd(s1, w_i_minus_16), s0), w_i_minus_7)
        w_i_bin == FromU32ToBeBits(w_i_u32)
    IN  [k \in 1..WordBits |-> FromCanonicalU32(w_i_bin[k])]

\* the row before w_i is filled in (ShaExtendSpongeColumnsView::default()
\* with the fields generate_rows_for_op assigns)
RowOfOp(op) ==
    [timestamp    |-> op.timestamp % P,
     round        |-> [r \in 1..NUM_ROUNDS |-> IF r = op.i + 1 THEN 1 ELSE 0],
     context      |-> op.base_address[1].context % P,
     segment      |-> op.base_address[1].segment % P,
     input_virt   |-> [a \in 1..NumExtendInput |-> op.base_address[a].virt % P],
     output_virt  |-> op.output_address.virt % P,
     w_i_minus_15 |-> [k \in 1..WordBits |-> FromCanonicalU32(InputSlice(op.input, 0)[k])],
     w_i_minus_2  |-> [k \in 1..WordBits |-> FromCanonicalU32(InputSlice(op.input, 1)[k])],
     w_i_minus_16 |-> [k \in 1..WordBits |-> FromCanonicalU32(InputSlice(op.input, 2)[k])],
     w_i_minus_7  |-> [k \in 1..WordBits |-> FromCanonicalU32(InputSlice(op.input, 3)[k])],
     w_i          |-> [k \in 1..WordBits |-> 0]]

\* generate_rows_for_op: the row of one operation, w_i computed last
GenerateRowsForOp(op) == LET Filled(row) == [row EXCEPT !.w_i = ComputeWI(row)] IN Filled(RowOfOp(op))

\* The halves the input words are drawn from: small values and all ones, so that sums carry between the halves and out of the word.
LowHalves == {0, 1, 2, 3, HalfModulus - 1}

HighHalves == {0, HalfModulus - 1}

InputWords == {FromU32ToBeBits(U32(hi, lo)) : hi \in HighHalves, lo \in LowHalves}

\* the memory addresses of test_correction (Segment::Code as usize is 0)
MemoryAddress(context, segment, virt) == [context |-> context, segment |-> segment, virt |-> virt]

TestBaseAddress == <<MemoryAddress(0, 0, 4), MemoryAddress(0, 0, 56), MemoryAddress(0, 0, 0), MemoryAddress(0, 0, 36)>>

ShaExtendSpongeOp(w15, w2, w16, w7, i) == [base_address |-> TestBaseAddress, timestamp |-> 0, input |-> w15 \o w2 \o w16 \o w7, i |-> i, output_address |-> MemoryAddress(0, 0, 64)]

InitSha ==
    /\ pc = "op"
    /\ \E w15 \in InputWords, w2 \in InputWords, w16 \in InputWords, w7 \in InputWords :
       \E i \in {0, NUM_ROUNDS - 1} :
          sha_op = ShaExtendSpongeOp(w15, w2, w16, w7, i)
    /\ sha_row = Unused
    /\ IdleLookups /\ IdleSums /\ IdleCheck /\ IdleEval /\ IdleChain
    /\ IdleLeBytes /\ IdleEvalOld /\ IdleAssociativity /\ IdleVerifyBlock /\ IdleVerifyCircuit /\ IdleLayout /\ IdleEvalTable /\ IdleAggregation /\ IdleBlock /\ IdleRoot /\ IdleSerial /\ IdleNew

RunGenerateRowsForOp ==
    /\ pc = "op"
    /\ sha_row' = GenerateRowsForOp(sha_op)
    /\ pc' = "row"
    /\ UNCHANGED <<sha_op, vars_not_sha>>

NextSha == RunGenerateRowsForOp

SpecSha == InitSha /\ [][NextSha]_vars

(* The message-schedule word stated on bit arrays, element k holding bit   *)
(* k - 1 of the word as in the inputs.                                      *)
Rotr(bits, n) == [k \in 1..WordBits |-> bits[((k - 1 + n) % WordBits) + 1]]

Shr(bits, n) == [k \in 1..WordBits |-> IF k + n <= WordBits THEN bits[k + n] ELSE 0]

Xor3(a, b, c) == [k \in 1..WordBits |-> (a[k] + b[k] + c[k]) % 2]

RECURSIVE AddFrom(_, _, _, _)
\* the positions k..32 of the binary sum of a and b, carry being the carry
\* into position k; the carry out of the top position is dropped
AddFrom(a, b, k, carry) == IF k > WordBits THEN <<>> ELSE <<(a[k] + b[k] + carry) % 2>> \o AddFrom(a, b, k + 1, (a[k] + b[k] + carry) \div 2)

\* (a + b) mod 2^32
AddMod(a, b) == AddFrom(a, b, 1, 0)

RECURSIVE CarryFrom(_, _, _, _)
\* the carry out of the top position of the binary sum of a and b
CarryFrom(a, b, k, carry) == IF k > WordBits THEN carry ELSE CarryFrom(a, b, k + 1, (a[k] + b[k] + carry) \div 2)

SmallSigma0(x) == Xor3(Rotr(x, 7), Rotr(x, 18), Shr(x, 3))

SmallSigma1(x) == Xor3(Rotr(x, 17), Rotr(x, 19), Shr(x, 10))

ExtendedWord(w15, w2, w16, w7) == AddMod(AddMod(AddMod(SmallSigma1(w2), w16), SmallSigma0(w15)), w7)

\* the sum of the four terms does not fit 32 bits, so an addition wrapped
SumOverflows(w15, w2, w16, w7) ==
    LET a == SmallSigma1(w2)
        b == AddMod(a, w16)
        c == AddMod(b, SmallSigma0(w15))
    IN  CarryFrom(a, w16, 1, 0) + CarryFrom(b, SmallSigma0(w15), 1, 0) + CarryFrom(c, w7, 1, 0) > 0

\* the bit array of a value below 2^16
BitsOfSmall(value) == [k \in 1..WordBits |-> (value \div Pow2(Min2(k - 1, HalfBits))) % 2]

\* C19: whenever generate_rows_for_op has returned the row of an operation
\* whose four input words are bit arrays, the row's w_i is the 32 bits, in the
\* bit order of the inputs, of
\* (s1(w[i-2]) + w[i-16] + s0(w[i-15]) + w[i-7]) mod 2^32 with
\* s0(x) = rotr(x,7) xor rotr(x,18) xor (x >> 3) and
\* s1(x) = rotr(x,17) xor rotr(x,19) xor (x >> 10); the row is always
\* produced, also when the sum exceeds 32 bits.
C19_WIsExtendedWord ==
    pc = "row" =>
        /\ sha_row # Unused
        /\ sha_row.w_i = ExtendedWord(InputSlice(sha_op.input, 0), InputSlice(sha_op.input, 1), InputSlice(sha_op.input, 2), InputSlice(sha_op.input, 3))

\* a row was produced for inputs whose sum wraps around 2^32
C19_Witness ==
    /\ pc = "row"
    /\ SumOverflows(InputSlice(sha_op.input, 0), InputSlice(sha_op.input, 1), InputSlice(sha_op.input, 2), InputSlice(sha_op.input, 3))
    /\ sha_row.w_i = ExtendedWord(InputSlice(sha_op.input, 0), InputSlice(sha_op.input, 1), InputSlice(sha_op.input, 2), InputSlice(sha_op.input, 3))

\* the vector of test_correction: the words 0, 1, 2, 3 give 40965
C19_WitnessTestVector ==
    /\ pc = "row"
    /\ sha_op.input = BitsOfSmall(0) \o BitsOfSmall(1) \o BitsOfSmall(2) \o BitsOfSmall(3)
    /\ sha_row.w_i = BitsOfSmall(40965)

---------------------------------------------------------------------------
(* The helper columns get_helper_cols returns.                             *)

\* ceil(a / b) for positive b
CeilDiv(a, b) == (a + b - 1) \div b

\* C21: whenever get_helper_cols returns for a group of k (columns, filter)
\* pairs, it returns exactly ceil(k / (constraint_degree - 1)) helper columns
\* of one value per row, and helper column j at row r is the sum of
\* 1/combine(column values of the pair at r) over the pairs of the j-th chunk
\* of constraint_degree - 1 consecutive pairs whose filter is 1 at r (an
\* absent filter counts as 1).
C21_HelperColumns ==
    (pc \in {"summed", "evaluated"} \/ (pc = "aborted" /\ ~IsAbort(ps_helper_columns))) =>
        /\ ~IsAbort(ps_helper_columns)
        /\ Len(ps_helper_columns.val) = CeilDiv(Len(ps_columns_filters), ConstraintDegree - 1)
        /\ \A j \in 1 .. Len(ps_helper_columns.val) :
               /\ Len(ps_helper_columns.val[j]) = TraceLen(ps_trace)
               /\ \A row \in SumRowsOf :
                      ps_helper_columns.val[j][row + 1] = SelectedInverseSum(ChunkPairs(j) \X {row})

\* three pairs: a full chunk of two and a last chunk of one, with a pair
\* whose filter is 0 on some row and a pair that is selected on some row
C21_Witness ==
    /\ pc = "summed"
    /\ Len(ps_columns_filters) = 3
    /\ Len(ps_helper_columns.val) = 2
    /\ \E i \in PairIndices : \E row \in SumRowsOf : PairFilterAt(i, row) = 0
    /\ \E row \in SumRowsOf : PairFilterAt(3, row) = 1 /\ ps_helper_columns.val[2][row + 1] # 0

\* a single pair: one helper column, which partial_sums does not return
C21_WitnessSinglePair ==
    /\ pc = "summed"
    /\ Len(ps_columns_filters) = 1
    /\ Len(ps_helper_columns.val) = 1
    /\ Len(ps_result.val) = 1
    /\ ps_columns_filters[1][2] = None
    /\ \E row \in SumRowsOf : ps_helper_columns.val[1][row + 1] # 0

---------------------------------------------------------------------------
(* Column::eval_table and Filter::eval_table on every row of a table.      *)

MaxTraceRows == 3

\* Column::linear_combination_and_next_row_with_constant
ColumnLinearCombinationAndNextRowWithConstant(v, next_row_v, constant) ==
    [linear_combination |-> v,
     next_row_linear_combination |-> next_row_v,
     constant |-> constant]

\* Column::eval_table of the grand-product engine
ColumnEvalTableOld(col, trace, row) ==
    LET res == FAdd(LinearSum(col.linear_combination, TraceRow(trace, row)),
                    col.constant)
    IN  IF Len(col.next_row_linear_combination) # 0 /\ row < TraceLen(trace) - 1
        THEN FAdd(res, LinearSum(col.next_row_linear_combination,
                                 TraceRow(trace, row + 1)))
        ELSE res

\* The rows at which Column::eval_table indexes the table: values[row] for
\* the current-row terms, values[row + 1] for the next-row terms when the
\* guard lets them be read.
ColumnEvalTableRows(col, trace, row) ==
    (IF Len(col.linear_combination) # 0 THEN {row} ELSE {})
    \cup (IF Len(col.next_row_linear_combination) # 0 /\ row < TraceLen(trace) - 1
          THEN {row + 1} ELSE {})

\* The rows Filter::eval_table indexes: those of every column it evaluates.
FilterEvalTableRows(filter, trace, row) ==
    UNION ({ColumnEvalTableRows(filter.products[k][1], trace, row) \cup ColumnEvalTableRows(filter.products[k][2], trace, row) : k \in 1 .. Len(filter.products)}
           \cup {ColumnEvalTableRows(filter.constants[k], trace, row) : k \in 1 .. Len(filter.constants)})

\* Tables of two columns and 1..MaxTraceRows rows.
EvalTableTraces ==
    UNION {{<<a, b>> : a \in [1 .. n -> 0 .. MaxValue], b \in [1 .. n -> 0 .. MaxValue]} : n \in 1 .. MaxTraceRows}

EvalTableColumns ==
    { ColumnSingle(0),
      ColumnSingleNextRow(1),
      ColumnLinearCombinationWithConstant(<<<<0, 1>>, <<1, 2>>>>, 1),
      ColumnLinearCombinationAndNextRowWithConstant(<<<<0, 1>>>>, <<<<0, 2>>, <<1, 1>>>>, 3),
      ColumnLinearCombinationAndNextRowWithConstant(<<>>, <<<<1, P - 1>>>>, 1) }

EvalTableFilters ==
    { FilterNewSimple(ColumnSingle(1)),
      FilterNewSimple(ColumnSingleNextRow(1)),
      FilterNew(<<<<ColumnSingle(0), ColumnSingleNextRow(1)>>>>, <<ColumnLinearCombinationAndNextRowWithConstant(<<>>, <<<<0, 1>>>>, 1)>>) }

InitEvalTable ==
    /\ pc = "table"
    /\ et_trace \in EvalTableTraces
    /\ et_column \in EvalTableColumns
    /\ et_filter \in EvalTableFilters
    /\ et_row \in 0 .. (TraceLen(et_trace) - 1)
    /\ et_result = NotRun
    /\ et_rows_read = {}
    /\ IdleLookups /\ IdleSums /\ IdleCheck /\ IdleEval /\ IdleChain
    /\ IdleLeBytes /\ IdleEvalOld /\ IdleAssociativity /\ IdleVerifyBlock /\ IdleVerifyCircuit /\ IdleLayout /\ IdleAggregation /\ IdleBlock /\ IdleRoot /\ IdleSerial /\ IdleNew /\ IdleSha

EvalTableRan(function, val, rows) ==
    /\ et_result' = [tag |-> function, val |-> val]
    /\ et_rows_read' = rows
    /\ pc' = "evaluated"
    /\ UNCHANGED <<et_trace, et_column, et_filter, et_row, vars_not_et>>

RunColumnEvalTable ==
    /\ pc = "table"
    /\ EvalTableRan("Column", ColumnEvalTable(et_column, et_trace, et_row),
                    ColumnEvalTableRows(et_column, et_trace, et_row))

RunColumnEvalTableOld ==
    /\ pc = "table"
    /\ EvalTableRan("ColumnOld", ColumnEvalTableOld(et_column, et_trace, et_row),
                    ColumnEvalTableRows(et_column, et_trace, et_row))

RunFilterEvalTable ==
    /\ pc = "table"
    /\ EvalTableRan("Filter", FilterEvalTable(et_filter, et_trace, et_row),
                    FilterEvalTableRows(et_filter, et_trace, et_row))

NextEvalTable == RunColumnEvalTable \/ RunColumnEvalTableOld \/ RunFilterEvalTable

SpecEvalTable == InitEvalTable /\ [][NextEvalTable]_vars

(* What the claim says a column is worth at a row: its current-row terms   *)
(* and constant, plus its next-row terms read at row + 1 unless the row is *)
(* the last one.                                                           *)
TermsAt(lc, row) ==
    LET idx == 1 .. Len(lc)
    IN  FSumOver(idx, [k \in idx |-> FMul(et_trace[lc[k][1] + 1][row + 1], lc[k][2])])

ColumnWorth(col) ==
    IF et_row = TraceLen(et_trace) - 1
    THEN FAdd(TermsAt(col.linear_combination, et_row), col.constant)
    ELSE FAdd(FAdd(TermsAt(col.linear_combination, et_row), col.constant),
              TermsAt(col.next_row_linear_combination, et_row + 1))

FilterWorth(filter) ==
    LET ps == 1 .. Len(filter.products)
        cs == 1 .. Len(filter.constants)
    IN  FAdd(FSumOver(ps, [k \in ps |-> FMul(ColumnWorth(filter.products[k][1]), ColumnWorth(filter.products[k][2]))]),
             FSumOver(cs, [k \in cs |-> ColumnWorth(filter.constants[k])]))

\* C22: Column::eval_table of both engines, and Filter::eval_table through
\* it, evaluated at the last row of a table returns the current-row terms
\* plus the constant with every next-row term counted as 0, at any other row
\* r adds the next-row terms read from row r + 1, and indexes no row past the
\* end of the table.
C22_LastRowReadsNoNextRow ==
    pc = "evaluated" =>
        /\ et_rows_read \subseteq 0 .. (TraceLen(et_trace) - 1)
        /\ et_row < TraceLen(et_trace) - 1 /\ et_result.tag \in {"Column", "ColumnOld"} /\ Len(et_column.next_row_linear_combination) # 0
               => (et_row + 1) \in et_rows_read
        /\ et_result.tag \in {"Column", "ColumnOld"} => et_result.val = ColumnWorth(et_column)
        /\ et_result.tag = "Filter" => et_result.val = FilterWorth(et_filter)

\* a column with next-row terms evaluated at the last row of a table of
\* several rows, where reading the next row cyclically would give another value
C22_Witness ==
    /\ pc = "evaluated"
    /\ et_result.tag = "Column"
    /\ TraceLen(et_trace) > 1
    /\ et_row = TraceLen(et_trace) - 1
    /\ Len(et_column.next_row_linear_combination) # 0
    /\ TermsAt(et_column.next_row_linear_combination, 0) # 0
    /\ et_rows_read \subseteq {et_row}

\* the same column at an inner row: row + 1 is read
C22_WitnessInnerRow ==
    /\ pc = "evaluated"
    /\ et_result.tag = "ColumnOld"
    /\ et_row < TraceLen(et_trace) - 1
    /\ Len(et_column.next_row_linear_combination) # 0
    /\ (et_row + 1) \in et_rows_read
    /\ TermsAt(et_column.next_row_linear_combination, et_row + 1) # 0

\* a filter with next-row terms at the last row
C22_WitnessFilter ==
    /\ pc = "evaluated"
    /\ et_result.tag = "Filter"
    /\ et_row = TraceLen(et_trace) - 1
    /\ FilterReadsNextRow(et_filter)
    /\ et_rows_read = {et_row}

---------------------------------------------------------------------------
(* The number of helper and Z columns of a table, as counted by            *)
(* num_ctl_helpers_zs_all and num_ctl_helper_columns_by_table and as       *)
(* emitted by cross_table_lookup_data; the check variables built from a    *)
(* table's openings.                                                       *)

\* the looked table followed by the looking tables
AllTablesOf(ctl) == <<ctl.looked_table>> \o ctl.looking_tables

NumAppearances(ctl, table) == Cardinality({k \in 1 .. Len(AllTablesOf(ctl)) : AllTablesOf(ctl)[k].table = table})

\* num_helpers_by_ctl[i] of num_ctl_helpers_zs_all
NumHelpersByCtl(ctl, table, constraint_degree) ==
    IF NumAppearances(ctl, table) > 1
    THEN CeilDiv(NumAppearances(ctl, table), constraint_degree - 1)
    ELSE 0

RECURSIVE SumSeq(_)
SumSeq(s) == IF Len(s) = 0 THEN 0 ELSE Head(s) + SumSeq(Tail(s))

\* CrossTableLookup::num_ctl_helpers_zs_all
NumCtlHelpersZsAll(ctls, table, nc, constraint_degree) ==
    LET num_helpers_by_ctl == [i \in 1 .. Len(ctls) |-> NumHelpersByCtl(ctls[i], table, constraint_degree)]
        num_ctls == Cardinality({i \in 1 .. Len(ctls) : NumAppearances(ctls[i], table) > 0})
    IN  <<SumSeq(num_helpers_by_ctl) * nc, num_ctls * nc, num_helpers_by_ctl>>

RECURSIVE NumByTableFrom(_, _, _)
\* the loop over the groups of one lookup: a later group of a table
\* overwrites what an earlier group of that table stored
NumByTableFrom(groups, num_by_table, constraint_degree) ==
    IF Len(groups) = 0 THEN num_by_table
    ELSE LET table == Head(groups)[1].table
             sum == Len(Head(groups))
         IN  NumByTableFrom(Tail(groups),
                            IF sum > 1
                            THEN [num_by_table EXCEPT ![table] = CeilDiv(sum, constraint_degree - 1)]
                            ELSE num_by_table,
                            constraint_degree)

\* num_ctl_helper_columns_by_table
NumCtlHelperColumnsByTable(ctls, constraint_degree) ==
    [i \in 1 .. Len(ctls) |->
        NumByTableFrom(GroupByTable(ctls[i].looking_tables), [t \in Tables |-> 0], constraint_degree)]

MaxLookingLayout == 3

\* Looking table k of a lookup reads column 0, without a filter at odd
\* positions and with the filter C at even positions; the looked table reads
\* column 0 under the filter C.
LayoutLooking(table, k) ==
    TableWithColumnsNew(table, <<ColumnSingle(0)>>, IF k % 2 = 1 THEN None ELSE FilterC)

LayoutLookups ==
    {CrossTableLookupNew([k \in 1 .. n |-> LayoutLooking(tables[k], k)],
                         TableWithColumnsNew(looked, <<ColumnSingle(0)>>, FilterC)) :
        <<tables, looked, n>> \in UNION {[1 .. m -> Tables] \X Tables \X {m} : m \in 1 .. MaxLookingLayout}}

\* every table has the same two-row trace: values 1, 0 and selector 1, 0
LayoutTraces == [t \in Tables |-> <<<<1, 0>>, <<1, 0>>>>]

\* challenge c has beta 2 and gamma c, which keeps every combination nonzero
LayoutChallenges(nc) == [c \in 1 .. nc |-> [beta |-> 2, gamma |-> c]]

InitLayout ==
    /\ pc = "lookups"
    /\ lay_ctls \in UNION {[1 .. n -> LayoutLookups] : n \in 1 .. MaxLookups}
    /\ lay_challenges \in {LayoutChallenges(nc) : nc \in 1 .. MaxChallenges}
    /\ lay_num_lookup_columns \in {0, 1}
    /\ lay_data = NotRun
    /\ lay_counts = NotRun
    /\ lay_by_table = NotRun
    /\ lay_vars = NotRun
    /\ lay_targets = NotRun
    /\ IdleLookups /\ IdleSums /\ IdleCheck /\ IdleEval /\ IdleChain
    /\ IdleLeBytes /\ IdleEvalOld /\ IdleAssociativity /\ IdleVerifyBlock /\ IdleVerifyCircuit /\ IdleAggregation /\ IdleBlock /\ IdleRoot /\ IdleSerial /\ IdleNew /\ IdleSha /\ IdleEvalTable

\* the prover builds the helper and Z columns of every table
RunCrossTableLookupData ==
    /\ pc = "lookups"
    /\ LET data == CrossTableLookupData(LayoutTraces, lay_ctls, lay_challenges, ConstraintDegree)
       IN  /\ lay_data' = data
           /\ pc' = IF IsAbort(data) THEN "aborted" ELSE "data"
    /\ UNCHANGED <<lay_ctls, lay_challenges, lay_num_lookup_columns, lay_counts, lay_by_table, lay_vars, lay_targets>>
    /\ UNCHANGED vars_not_lay

RunNumCtlHelpersZsAll ==
    /\ pc = "data"
    /\ lay_counts' = [t \in Tables |-> NumCtlHelpersZsAll(lay_ctls, t, Len(lay_challenges), ConstraintDegree)]
    /\ pc' = "counted"
    /\ UNCHANGED <<lay_ctls, lay_challenges, lay_num_lookup_columns, lay_data, lay_by_table, lay_vars, lay_targets>>
    /\ UNCHANGED vars_not_lay

RunNumCtlHelperColumnsByTable ==
    /\ pc = "counted"
    /\ lay_by_table' = NumCtlHelperColumnsByTable(lay_ctls, ConstraintDegree)
    /\ pc' = "by_table"
    /\ UNCHANGED <<lay_ctls, lay_challenges, lay_num_lookup_columns, lay_data, lay_counts, lay_vars, lay_targets>>
    /\ UNCHANGED vars_not_lay

\* CtlData::ctl_helper_polys: the helper columns of every CtlZData in order
RECURSIVE CtlHelperPolys(_)
CtlHelperPolys(zs_columns) ==
    IF Len(zs_columns) = 0 THEN <<>>
    ELSE Head(zs_columns).helper_columns \o CtlHelperPolys(Tail(zs_columns))

\* CtlData::ctl_z_polys
CtlZPolys(zs_columns) == [k \in 1 .. Len(zs_columns) |-> zs_columns[k].z]

\* The opening of a polynomial is named after the polynomial: <<at, k, j>> is
\* the opening, at the point or at the next point, of helper column j (Z for
\* j = 0) of the table's k-th CtlZData; k = 0 names a range-check column.
Opened(zs_columns, at) ==
    [k \in 1 .. Len(zs_columns) |->
        [zs_columns[k] EXCEPT !.helper_columns = [j \in 1 .. Len(@) |-> <<at, k, j>>],
                              !.z = <<at, k, 0>>]]

\* auxiliary_polys (or auxiliary_polys_next) of a table's proof: the
\* range-check columns, then all CTL helper columns, then all CTL Z columns
AuxiliaryPolys(zs_columns, at, num_lookup_columns) ==
    [i \in 1 .. num_lookup_columns |-> <<at, 0, i>>]
        \o CtlHelperPolys(Opened(zs_columns, at))
        \o CtlZPolys(Opened(zs_columns, at))

\* ctl_zs of one proof: the openings after the range-check columns, each
\* paired with the opening at the next point
CtlZsOf(auxiliary_polys, auxiliary_polys_next, num_lookup) ==
    [i \in 1 .. (Min2(Len(auxiliary_polys), Len(auxiliary_polys_next)) - num_lookup) |->
        <<auxiliary_polys[num_lookup + i], auxiliary_polys_next[num_lookup + i]>>]

RECURSIVE FromProofsLooking(_, _, _, _, _, _, _)
\* `for &table in filtered_looking_tables.iter()`; an index past the end of
\* ctl_zs[table] panics
FromProofsLooking(st, filtered, looking_tables, challenges, num_ctls, ctl_zs, total) ==
    IF IsAbort(st) \/ Len(filtered) = 0 THEN st
    ELSE LET table == Head(filtered)
             z_at == total[table] + st.val.z_indices[table]
             from == st.val.start_indices[table]
             same == LookingOfTable(looking_tables, table)
         IN  IF z_at >= Len(ctl_zs[table]) \/ from + num_ctls[table] > Len(ctl_zs[table])
             THEN Panic
             ELSE FromProofsLooking(
                      Ok([start_indices |-> [st.val.start_indices EXCEPT ![table] = @ + num_ctls[table]],
                          z_indices |-> [st.val.z_indices EXCEPT ![table] = @ + 1],
                          vars |-> [st.val.vars EXCEPT ![table] =
                                       Append(@, CtlCheckVarsNew(
                                                     [j \in 1 .. num_ctls[table] |-> ctl_zs[table][from + j][1]],
                                                     ctl_zs[table][z_at + 1][1],
                                                     ctl_zs[table][z_at + 1][2],
                                                     challenges,
                                                     [i \in 1 .. Len(same) |-> same[i].columns],
                                                     [i \in 1 .. Len(same) |-> same[i].filter]))]]),
                      Tail(filtered), looking_tables, challenges, num_ctls, ctl_zs, total)

\* the looked table's record of one lookup and challenge
FromProofsLooked(st, looked_table, challenges, ctl_zs, total) ==
    IF IsAbort(st) THEN st
    ELSE LET table == looked_table.table
             z_at == total[table] + st.val.z_indices[table]
         IN  IF z_at >= Len(ctl_zs[table]) THEN Panic
             ELSE Ok([st.val EXCEPT !.z_indices[table] = @ + 1,
                                    !.vars[table] =
                                        Append(@, CtlCheckVarsNew(<<>>,
                                                                  ctl_zs[table][z_at + 1][1],
                                                                  ctl_zs[table][z_at + 1][2],
                                                                  challenges,
                                                                  <<looked_table.columns>>,
                                                                  <<looked_table.filter>>))])

RECURSIVE FromProofsLoop(_, _, _, _, _, _, _, _)
FromProofsLoop(st, ctls, challenges, num_helper_ctl_columns, ctl_zs, total, index, c) ==
    IF IsAbort(st) \/ index > Min2(Len(ctls), Len(num_helper_ctl_columns)) THEN st
    ELSE IF c > Len(challenges)
    THEN FromProofsLoop(st, ctls, challenges, num_helper_ctl_columns, ctl_zs, total, index + 1, 1)
    ELSE FromProofsLoop(
             FromProofsLooked(
                 FromProofsLooking(st, FilteredLookingTables(ctls[index].looking_tables),
                                   ctls[index].looking_tables, challenges[c],
                                   num_helper_ctl_columns[index], ctl_zs, total),
                 ctls[index].looked_table, challenges[c], ctl_zs, total),
             ctls, challenges, num_helper_ctl_columns, ctl_zs, total, index, c + 1)

\* CtlCheckVars::from_proofs; proofs[t] holds the auxiliary_polys and
\* auxiliary_polys_next openings of table t
FromProofs(proofs, ctls, challenges, num_lookup_columns, num_helper_ctl_columns) ==
    LET total_num_helper_cols_by_table ==
            [j \in Tables |-> SumSeq([p \in 1 .. Len(num_helper_ctl_columns) |-> num_helper_ctl_columns[p][j] * Len(challenges)])]
        ctl_zs == [t \in Tables |-> CtlZsOf(proofs[t].auxiliary_polys, proofs[t].auxiliary_polys_next, num_lookup_columns[t])]
        VarsOf(st) == IF IsAbort(st) THEN st ELSE Ok(st.val.vars)
    IN  VarsOf(FromProofsLoop(Ok([start_indices |-> [t \in Tables |-> 0],
                                 z_indices |-> [t \in Tables |-> 0],
                                 vars |-> [t \in Tables |-> <<>>]]),
                             ctls, challenges, num_helper_ctl_columns, ctl_zs,
                             total_num_helper_cols_by_table, 1, 1))

\* the body of from_proof's loop for one lookup and one challenge
FromProofStep(st, table, ctl, challenges, ctl_zs, total_num_helper_columns, num_helpers) ==
    LET same == LookingOfTable(ctl.looking_tables, table)
        Looking ==
            IF Len(same) = 0 THEN st
            ELSE IF total_num_helper_columns + st.val.z_index >= Len(ctl_zs)
                    \/ st.val.start_index + num_helpers > Len(ctl_zs)
            THEN Panic
            ELSE Ok([start_index |-> st.val.start_index + num_helpers,
                     z_index |-> st.val.z_index + 1,
                     vars |-> Append(st.val.vars,
                                     CtlCheckVarsNew(
                                         [j \in 1 .. num_helpers |-> ctl_zs[st.val.start_index + j][1]],
                                         ctl_zs[total_num_helper_columns + st.val.z_index + 1][1],
                                         ctl_zs[total_num_helper_columns + st.val.z_index + 1][2],
                                         challenges,
                                         [i \in 1 .. Len(same) |-> same[i].columns],
                                         [i \in 1 .. Len(same) |-> same[i].filter]))])
        Looked(after) ==
            IF IsAbort(after) \/ ctl.looked_table.table # table THEN after
            ELSE IF total_num_helper_columns + after.val.z_index >= Len(ctl_zs) THEN Panic
            ELSE Ok([after.val EXCEPT !.z_index = @ + 1,
                                      !.vars = Append(@, CtlCheckVarsNew(
                                                             <<>>,
                                                             ctl_zs[total_num_helper_columns + after.val.z_index + 1][1],
                                                             ctl_zs[total_num_helper_columns + after.val.z_index + 1][2],
                                                             challenges,
                                                             <<ctl.looked_table.columns>>,
                                                             <<ctl.looked_table.filter>>))])
    IN  IF IsAbort(st) THEN st ELSE Looked(Looking)

RECURSIVE FromProofLoop(_, _, _, _, _, _, _, _, _)
FromProofLoop(st, table, ctls, challenges, ctl_zs, total_num_helper_columns, num_helper_ctl_columns, index, c) ==
    IF IsAbort(st) \/ index > Len(ctls) THEN st
    ELSE IF c > Len(challenges)
    THEN FromProofLoop(st, table, ctls, challenges, ctl_zs, total_num_helper_columns, num_helper_ctl_columns, index + 1, 1)
    ELSE FromProofLoop(FromProofStep(st, table, ctls[index], challenges[c], ctl_zs,
                                     total_num_helper_columns, num_helper_ctl_columns[index]),
                       table, ctls, challenges, ctl_zs, total_num_helper_columns,
                       num_helper_ctl_columns, index, c + 1)

\* CtlCheckVarsTarget::from_proof
FromProof(table, proof, ctls, challenges, num_lookup_columns, total_num_helper_columns, num_helper_ctl_columns) ==
    LET VarsOf(st) == IF IsAbort(st) THEN st ELSE Ok(st.val.vars)
    IN  VarsOf(FromProofLoop(Ok([start_index |-> 0, z_index |-> 0, vars |-> <<>>]),
                            table, ctls, challenges,
                            CtlZsOf(proof.auxiliary_polys, proof.auxiliary_polys_next, num_lookup_columns),
                            total_num_helper_columns, num_helper_ctl_columns, 1, 1))

\* the openings of every table's proof, laid out from the prover's data
LayoutProofs ==
    [t \in Tables |->
        [auxiliary_polys |-> AuxiliaryPolys(lay_data.val[t], "local", lay_num_lookup_columns),
         auxiliary_polys_next |-> AuxiliaryPolys(lay_data.val[t], "next", lay_num_lookup_columns)]]

\* the verifier builds the check variables of every table, with the helper
\* counts of num_ctl_helper_columns_by_table
RunFromProofs ==
    /\ pc = "by_table"
    /\ lay_vars' = FromProofs(LayoutProofs, lay_ctls, lay_challenges,
                              [t \in Tables |-> lay_num_lookup_columns], lay_by_table)
    /\ pc' = "native"
    /\ UNCHANGED <<lay_ctls, lay_challenges, lay_num_lookup_columns, lay_data, lay_counts, lay_by_table, lay_targets>>
    /\ UNCHANGED vars_not_lay

\* the recursive verifier builds the check variables of every table, with
\* the counts of num_ctl_helpers_zs_all
RunFromProof ==
    /\ pc = "native"
    /\ lay_targets' = [t \in Tables |->
                          FromProof(t, LayoutProofs[t], lay_ctls, lay_challenges,
                                    lay_num_lookup_columns, lay_counts[t][1], lay_counts[t][3])]
    /\ pc' = "target"
    /\ UNCHANGED <<lay_ctls, lay_challenges, lay_num_lookup_columns, lay_data, lay_counts, lay_by_table, lay_vars>>
    /\ UNCHANGED vars_not_lay

NextLayout == RunCrossTableLookupData \/ RunNumCtlHelpersZsAll \/ RunNumCtlHelperColumnsByTable \/ RunFromProofs \/ RunFromProof

SpecLayout == InitLayout /\ [][NextLayout]_vars

(* Claims about the counts and the layout.                                 *)

\* the number of helper columns in a list of CtlZData
HelperColumnsIn(zs_columns) == Len(CtlHelperPolys(zs_columns))

\* what cross_table_lookup_data emits for lookup i alone under one challenge
EmittedForLookup(i) ==
    CrossTableLookupData(LayoutTraces, <<lay_ctls[i]>>, <<lay_challenges[1]>>, ConstraintDegree).val

\* C23: for every table, num_ctl_helpers_zs_all returns the number of helper
\* columns and the number of Z columns that cross_table_lookup_data emitted
\* for the table over all lookups and challenges (H * num_challenges and
\* Z * num_challenges), and for every lookup the number of helper columns
\* emitted for the table in that lookup under one challenge; also when the
\* table is both the looked table and a looking table of a lookup.
C23_CountsMatchEmission ==
    pc \in {"counted", "by_table", "native", "target"} =>
        \A t \in Tables :
            /\ lay_counts[t][1] = HelperColumnsIn(lay_data.val[t])
            /\ lay_counts[t][2] = Len(lay_data.val[t])
            /\ \A i \in 1 .. Len(lay_ctls) :
                   lay_counts[t][3][i] = HelperColumnsIn(EmittedForLookup(i)[t])

\* the occurrences of every table among the looking tables of every lookup
\* are consecutive, and no looked table is also a looking table of its lookup
ConsecutiveAndDisjoint ==
    \A i \in 1 .. Len(lay_ctls) :
        /\ \A t \in Tables : Cardinality({g \in 1 .. Len(GroupByTable(lay_ctls[i].looking_tables)) : GroupByTable(lay_ctls[i].looking_tables)[g][1].table = t}) <= 1
        /\ \A k \in 1 .. Len(lay_ctls[i].looking_tables) : lay_ctls[i].looking_tables[k].table # lay_ctls[i].looked_table.table

CountsMatchWhenDisjoint == ConsecutiveAndDisjoint => C23_CountsMatchEmission

\* the check variables that carry the k-th CtlZData of a table: its
\* challenge, column groups and filters, the openings of its Z column and
\* the openings of its helper columns
CheckVarsOfData(zdata, k) ==
    CtlCheckVarsNew([j \in 1 .. Len(zdata.helper_columns) |-> <<"local", k, j>>],
                    <<"local", k, 0>>, <<"next", k, 0>>,
                    zdata.challenge, zdata.columns, zdata.filter)

\* a list of check variables follows a table's list of CtlZData
FollowsData(built, zs_columns) ==
    /\ ~IsAbort(built)
    /\ Len(built.val) = Len(zs_columns)
    /\ \A k \in 1 .. Len(zs_columns) : built.val[k] = CheckVarsOfData(zs_columns[k], k)

\* C25: with every table's auxiliary openings laid out as its CTL helper
\* columns followed by its CTL Z columns in the order cross_table_lookup_data
\* pushed them, for every table the k-th record of CtlCheckVars::from_proofs
\* and the k-th record of CtlCheckVarsTarget::from_proof carry the challenge,
\* column groups and filters of the table's k-th CtlZData, read Z from the
\* opening of its Z column and read as helper columns exactly the openings
\* of its helper columns; looking tables may occur several times in a
\* lookup, consecutively or not.
C25_CheckVarsFollowData ==
    /\ pc \in {"native", "target"} =>
           \A t \in Tables :
               FollowsData(IF IsAbort(lay_vars) THEN lay_vars ELSE Ok(lay_vars.val[t]), lay_data.val[t])
    /\ pc = "target" =>
           \A t \in Tables : FollowsData(lay_targets[t], lay_data.val[t])

\* the native half of the statement alone
NativeFollowsData ==
    pc \in {"native", "target"} =>
        \A t \in Tables :
            FollowsData(IF IsAbort(lay_vars) THEN lay_vars ELSE Ok(lay_vars.val[t]), lay_data.val[t])

\* every table's looking occurrences are consecutive in every lookup
ConsecutiveOccurrences ==
    \A i \in 1 .. Len(lay_ctls) : \A t \in Tables :
        Cardinality({g \in 1 .. Len(GroupByTable(lay_ctls[i].looking_tables)) : GroupByTable(lay_ctls[i].looking_tables)[g][1].table = t}) <= 1

NativeFollowsWhenConsecutive == ConsecutiveOccurrences => NativeFollowsData

CheckVarsFollowWhenDisjoint == ConsecutiveAndDisjoint => C25_CheckVarsFollowData

---------------------------------------------------------------------------
(* The key the root circuit selects for a table.                           *)

\* The number of real chains of the table.
NumChains == Cardinality(DOMAIN by_stark_size.map)

\* The key of the chain that produced the shrunk proof: the verifier-only
\* data of the last circuit of the chain prove_root ran the proof through.
KeyOfProvingChain ==
    VerifierOnlyOf(LastCircuit(root_result.val.chain.initial_wrapper,
                               root_result.val.chain.shrinking_wrappers))

\* C24: when prove_root finds the chain of the proof's size, the
\* index_verifier_data it sets is the rank of that size among the table's
\* preprocessed sizes in ascending order, which is the position of the size's
\* final circuit in final_circuits(); the padded key list agrees with the keys
\* of the final circuits on every entry below the number of real chains and
\* holds copies of the first key above; so the key the root circuit selects
\* is the key of the chain that produced the shrunk proof.
C24_SelectedKeyIsProvingChains ==
    (pc = "proved" /\ root_result.tag = "Ok") =>
        LET index == root_result.val.index_verifier_data
            final_circuits == FinalCircuits(by_stark_size.map)
        IN  /\ index < NumChains
            /\ SortedKeys(DOMAIN by_stark_size.map)[index + 1] = root_size
            /\ \A size \in DOMAIN by_stark_size.map :
                   (size < root_size) <=>
                       (\E k \in 1 .. index :
                            SortedKeys(DOMAIN by_stark_size.map)[k] = size)
            /\ final_circuits[index + 1]
                   = LastCircuit(by_stark_size.map[root_size].initial_wrapper,
                                 by_stark_size.map[root_size].shrinking_wrappers)
            /\ IsPowerOfTwo(Len(possible_vks))
            /\ Len(possible_vks) >= NumChains
            /\ \A k \in 1 .. Len(possible_vks) :
                   possible_vks[k] =
                       IF k <= NumChains THEN VerifierOnlyOf(final_circuits[k])
                       ELSE VerifierOnlyOf(final_circuits[1])
            /\ RandomAccessVerifierData(index, possible_vks) = Ok(KeyOfProvingChain)

\* Witness for C24: three sizes were preprocessed, so the key list was padded
\* to four entries, and the proof came from the chain of the last size.
C24_Witness ==
    /\ pc = "proved"
    /\ root_result.tag = "Ok"
    /\ NumChains = 3
    /\ Len(possible_vks) = 4
    /\ root_result.val.index_verifier_data = 2
    /\ possible_vks[4] # KeyOfProvingChain
    /\ RandomAccessVerifierData(2, possible_vks) = Ok(KeyOfProvingChain)

\* Second witness shape for C24: a range that does not start at size 0, and
\* the proof came from the chain of its second size.
C24_WitnessMiddle ==
    /\ pc = "proved"
    /\ root_result.tag = "Ok"
    /\ degree_bits_range[1] = 1
    /\ NumChains = 2
    /\ root_size = 2
    /\ root_result.val.index_verifier_data = 1
    /\ Len(root_result.val.chain.shrinking_wrappers) > 0

---------------------------------------------------------------------------
(* verify_cross_table_lookups_circuit next to verify_cross_table_lookups:  *)
(* the connections the circuit adds between the first-row Z targets, and   *)
(* the native verifier on the values assigned to those targets.            *)

\* The k-th first-row Z target of table t (k from 0).
ZTarget(t, k) == [table |-> t, index |-> k]

\* builder.add_many: a target holding the sum of the terms.
AddMany(terms) == [tag |-> "add_many", terms |-> terms]

\* builder.connect(x, y).
Connect(x, y) == [x |-> x, y |-> y]

\* One pass of the body of `for _c in 0..inner_config.num_challenges` with
\* the wrong reading order: the looked table's target first.
CircuitStepLookedFirst(filtered, looked, wires, pos) ==
    LET lookedExhausted == pos[looked] >= Len(wires[looked])
        pos1 == [pos EXCEPT ![looked] = @ + 1]
        lookingExhausted ==
            \E i \in 1 .. Len(filtered) : pos1[filtered[i]] >= Len(wires[filtered[i]])
    IN  IF lookingExhausted \/ lookedExhausted
        THEN [panic |-> TRUE, connection |-> None, pos |-> pos]
        ELSE [panic |-> FALSE,
              connection |->
                  Connect(wires[looked][pos[looked] + 1],
                          AddMany([i \in 1 .. Len(filtered) |->
                                      wires[filtered[i]][pos1[filtered[i]] + 1]])),
              pos |-> [t \in Tables |->
                          IF t \in SeqRange(filtered) THEN pos1[t] + 1 ELSE pos1[t]]]

\* One pass of the body of `for _c in 0..inner_config.num_challenges`: takes
\* the next target of every table of `filtered`, adds them, then takes the
\* looked table's next target and connects it with the sum.
CircuitStep(filtered, looked, wires, pos) ==
    LET lookingExhausted ==
            \E i \in 1 .. Len(filtered) : pos[filtered[i]] >= Len(wires[filtered[i]])
        pos1 == [t \in Tables |->
                    IF t \in SeqRange(filtered) THEN pos[t] + 1 ELSE pos[t]]
        lookedExhausted == pos1[looked] >= Len(wires[looked])
    IN  IF lookingExhausted \/ lookedExhausted
        THEN [panic |-> TRUE, connection |-> None, pos |-> pos]
        ELSE [panic |-> FALSE,
              connection |->
                  Connect(wires[looked][pos1[looked] + 1],
                          AddMany([i \in 1 .. Len(filtered) |->
                                      wires[filtered[i]][pos[filtered[i]] + 1]])),
              pos |-> [pos1 EXCEPT ![looked] = @ + 1]]

\* The loops of verify_cross_table_lookups_circuit from lookup `index` and
\* repetition c on: the connections added so far are `connections`.
RECURSIVE CircuitLoop(_, _, _, _, _, _, _)
CircuitLoop(ctls, wires, nc, index, c, pos, connections) ==
    IF index > Len(ctls) THEN Ok(connections)
    ELSE IF c >= nc THEN CircuitLoop(ctls, wires, nc, index + 1, 0, pos, connections)
    ELSE LET st == CircuitStep(FilteredLookingTables(ctls[index].looking_tables),
                               ctls[index].looked_table.table, wires, pos)
         IN  IF st.panic THEN Panic
             ELSE CircuitLoop(ctls, wires, nc, index, c + 1, st.pos,
                              Append(connections, st.connection))

\* verify_cross_table_lookups_circuit: the connections it adds to the
\* builder, or the panic of an exhausted iterator.
VerifyCrossTableLookupsCircuitConnections(ctls, wires, nc) ==
    CircuitLoop(ctls, wires, nc, 1, 0, [t \in Tables |-> 0], <<>>)

\* The value of a target under an assignment of the first-row Z targets.
TargetValue(target, values) ==
    IF "tag" \in DOMAIN target
    THEN FSumSeq([i \in 1 .. Len(target.terms) |->
                     values[target.terms[i].table][target.terms[i].index + 1]])
    ELSE values[target.table][target.index + 1]

\* Whether an assignment satisfies every connection.
Satisfies(connections, values) ==
    \A k \in 1 .. Len(connections) :
        TargetValue(connections[k].x, values) = TargetValue(connections[k].y, values)

\* The numbers of openings a table can come with: what the lookups take
\* from it, or one less.
OpeningLengths(ctls, nc) ==
    {len \in [Tables -> 0 .. (2 * MaxLookups * MaxChallenges)] :
        /\ \A t \in Tables : len[t] \in {NumZs(ctls, t, nc), NumZs(ctls, t, nc) - 1}
        /\ Cardinality({t \in Tables : len[t] # NumZs(ctls, t, nc)}) <= 1}

\* Every assignment of values to tables 0 .. n - 1 with len[t] values for
\* table t.
RECURSIVE ValueSeqs(_, _)
ValueSeqs(n, len) ==
    IF n = 0 THEN {<<>>}
    ELSE {Append(s, z) : s \in ValueSeqs(n - 1, len), z \in [1 .. len[n - 1] -> ZVals]}

InitVerifyCircuit ==
    /\ pc = "wired"
    /\ vc_ctls \in PlainLookupLists
    /\ vc_num_challenges \in 1 .. MaxChallenges
    /\ \E len \in OpeningLengths(vc_ctls, vc_num_challenges) :
           /\ vc_wires = [t \in Tables |-> [k \in 1 .. len[t] |-> ZTarget(t, k - 1)]]
           /\ vc_values \in {[t \in Tables |-> s[t + 1]] : s \in ValueSeqs(NumTables, len)}
    /\ vc_native = NotRun
    /\ vc_constraints = NotRun
    /\ IdleLookups /\ IdleSums /\ IdleCheck /\ IdleEval /\ IdleChain
    /\ IdleLeBytes /\ IdleEvalOld /\ IdleAssociativity /\ IdleVerifyBlock /\ IdleLayout /\ IdleBlock /\ IdleRoot /\ IdleSerial /\ IdleNew /\ IdleSha /\ IdleEvalTable /\ IdleAggregation

\* The native verifier runs on the values.
RunVerifyCrossTableLookups ==
    /\ pc = "wired"
    /\ vc_native' = VerifyCrossTableLookups(vc_ctls, vc_values, vc_num_challenges)
    /\ pc' = "verified_values"
    /\ UNCHANGED <<vc_ctls, vc_num_challenges, vc_wires, vc_values, vc_constraints>>
    /\ UNCHANGED vars_not_vc

\* The circuit verifier adds its connections over the targets.
RunVerifyCrossTableLookupsCircuit ==
    /\ pc = "verified_values"
    /\ vc_constraints' =
           VerifyCrossTableLookupsCircuitConnections(vc_ctls, vc_wires, vc_num_challenges)
    /\ pc' = "constrained"
    /\ UNCHANGED <<vc_ctls, vc_num_challenges, vc_wires, vc_values, vc_native>>
    /\ UNCHANGED vars_not_vc

NextVerifyCircuit ==
    \/ RunVerifyCrossTableLookups
    \/ RunVerifyCrossTableLookupsCircuit

SpecVerifyCircuit == InitVerifyCircuit /\ [][NextVerifyCircuit]_vars

---------------------------------------------------------------------------
(* Claims about the circuit verifier.                                      *)

DistinctLooking(ctl) == {ctl.looking_tables[i].table : i \in 1 .. Len(ctl.looking_tables)}

\* The number of first-row Z openings of table t that belong to the lookups
\* before lookup i and to the repetitions before c of lookup i.
RECURSIVE TakenBefore(_, _, _, _, _)
TakenBefore(ctls, nc, t, i, c) ==
    IF i = 1 THEN c * ZsPerRepetition(ctls[1], t)
    ELSE nc * ZsPerRepetition(ctls[i - 1], t)
         + TakenBefore(ctls, nc, t, i - 1, 0)
         + c * ZsPerRepetition(ctls[i], t)

\* C26: verify_cross_table_lookups_circuit adds, for each lookup and each
\* challenge repetition in order, one connection between the looked table's
\* next Z target and the sum of the next Z targets of the distinct looking
\* tables, taking every table's targets in the order in which
\* verify_cross_table_lookups takes the values; an assignment of the targets
\* satisfies all the connections exactly when verify_cross_table_lookups
\* returns Ok on the assigned values, and when the circuit cannot be built
\* the native verifier does not return Ok either.
C26_CircuitMatchesNative ==
    pc = "constrained" =>
        IF vc_constraints.tag = "Ok"
        THEN /\ Len(vc_constraints.val) = Len(vc_ctls) * vc_num_challenges
             /\ \A i \in 1 .. Len(vc_ctls) : \A c \in 0 .. (vc_num_challenges - 1) :
                    LET connection == vc_constraints.val[(i - 1) * vc_num_challenges + c + 1]
                        looked == vc_ctls[i].looked_table.table
                        Taken(t) == TakenBefore(vc_ctls, vc_num_challenges, t, i, c)
                    IN  /\ connection.x =
                               ZTarget(looked,
                                       Taken(looked)
                                       + (IF looked \in DistinctLooking(vc_ctls[i])
                                          THEN 1 ELSE 0))
                        /\ Len(connection.y.terms)
                               = Cardinality(DistinctLooking(vc_ctls[i]))
                        /\ SeqRange(connection.y.terms)
                               = {ZTarget(t, Taken(t)) : t \in DistinctLooking(vc_ctls[i])}
             /\ Satisfies(vc_constraints.val, vc_values) <=> (vc_native = ResOk)
        ELSE vc_native # ResOk

\* Witness for C26: two lookups and two repetitions, a table that is looked
\* and looking in a lookup and listed twice among its looking tables, an
\* assignment with nonzero values that satisfies the eight openings'
\* connections, and the native verifier returned Ok.
C26_Witness ==
    /\ pc = "constrained"
    /\ vc_constraints.tag = "Ok"
    /\ Len(vc_constraints.val) = 4
    /\ vc_native = ResOk
    /\ Satisfies(vc_constraints.val, vc_values)
    /\ \E i \in 1 .. 2 :
           /\ vc_ctls[i].looked_table.table \in DistinctLooking(vc_ctls[i])
           /\ Len(vc_ctls[i].looking_tables) = 2
           /\ Cardinality(DistinctLooking(vc_ctls[i])) = 1
    /\ \E t \in Tables : \E k \in 1 .. Len(vc_values[t]) : vc_values[t][k] # 0

\* Second witness shape for C26: the first lookup's connections hold and a
\* connection of the second does not; the native verifier names lookup 1.
C26_WitnessErr ==
    /\ pc = "constrained"
    /\ vc_constraints.tag = "Ok"
    /\ vc_native = ResErr(1)
    /\ ~Satisfies(vc_constraints.val, vc_values)
    /\ TargetValue(vc_constraints.val[1].x, vc_values)
           = TargetValue(vc_constraints.val[1].y, vc_values)

\* Third witness shape for C26: a table came with one target too few, the
\* circuit builder panicked, and the native verifier had returned an error
\* before it ran out of values.
C26_WitnessShort ==
    /\ pc = "constrained"
    /\ vc_constraints = Panic
    /\ vc_native.tag = "Err"

---------------------------------------------------------------------------
(* verify_block: the block proof, the assumptions of a composite receipt,  *)
(* and the cyclic verifier-key check.                                      *)

MaxAssumptions == 3

\* The circuits a proof can be a valid proof of; "none" is a proof no
\* circuit's verifier accepts.
ProofCircuits == {"root", "aggregation", "block", "none"}

\* A proof with the verifier key its public inputs carry for the cyclic
\* check.
ProofWithPis(of_circuit, cyclic_vk) == [circuit |-> of_circuit, cyclic_vk |-> cyclic_vk]

ProofsWithPis == {ProofWithPis(c, vk) : c \in ProofCircuits, vk \in {"block", "other"}}

\* circuit.verify(proof) of the circuit named `name`.
CircuitVerify(name, proof) ==
    IF proof.circuit = name THEN ResOk ELSE [tag |-> "Err", error |-> name]

\* check_cyclic_proof_verifier_data against the block circuit's
\* verifier-only data.
CheckCyclicProofVerifierData(proof, verifier_only) ==
    IF proof.cyclic_vk = verifier_only THEN ResOk
    ELSE [tag |-> "Err", error |-> "cyclic_vk"]

\* AssumptionReceipt::Proven(inner) and AssumptionReceipt::Unresolved(assumpt).
Proven(inner) == [tag |-> "Proven", inner |-> inner]

Unresolved(assumpt) == [tag |-> "Unresolved", assumpt |-> assumpt]

\* verify_root.
VerifyRoot(receipt) == CircuitVerify("root", receipt.proof)

\* The loop of verify_block over assumption_used from entry k on: the first
\* error of verify_root, and the assumptions logged.
RECURSIVE VerifyAssumptionsFrom(_, _, _)
VerifyAssumptionsFrom(assumption_used, k, log) ==
    IF k > Len(assumption_used) THEN [result |-> ResOk, log |-> log]
    ELSE IF assumption_used[k].tag = "Proven"
    THEN LET res == VerifyRoot([variant |-> "Segments",
                                proof |-> assumption_used[k].inner.proof])
         IN  IF res.tag # "Ok" THEN [result |-> res, log |-> log]
             ELSE VerifyAssumptionsFrom(assumption_used, k + 1, log)
    ELSE VerifyAssumptionsFrom(assumption_used, k + 1,
                               Append(log, assumption_used[k].assumpt))

\* verify_block: what it returns and what it logs.
VerifyBlock(block_receipt) ==
    LET AfterAssumptions(walked) ==
            [result |->
                 IF walked.result.tag # "Ok" THEN walked.result
                 ELSE CheckCyclicProofVerifierData(block_receipt.proof, "block"),
             log |-> walked.log]
    IN  IF CircuitVerify("block", block_receipt.proof).tag # "Ok"
        THEN [result |-> CircuitVerify("block", block_receipt.proof), log |-> <<>>]
        ELSE IF block_receipt.variant = "Segments"
        THEN [result |-> CheckCyclicProofVerifierData(block_receipt.proof, "block"),
              log |-> <<>>]
        ELSE AfterAssumptions(VerifyAssumptionsFrom(block_receipt.assumption_used, 1, <<>>))

\* The assumptions a composite receipt can carry.
AssumptionReceipts ==
    {Proven([proof |-> ProofWithPis(c, "other")]) : c \in {"root", "none"}}
        \cup {Unresolved(0)}

AssumptionLists == UNION {[1 .. n -> AssumptionReceipts] : n \in 0 .. MaxAssumptions}

BlockReceiptsToVerify ==
    {[variant |-> "Segments", proof |-> p, assumption_used |-> <<>>] : p \in ProofsWithPis}
        \cup {[variant |-> "Composite", proof |-> p, assumption_used |-> a] :
                 p \in ProofsWithPis, a \in AssumptionLists}

InitVerifyBlock ==
    /\ pc = "receipt"
    /\ vb_receipt \in BlockReceiptsToVerify
    /\ vb_result = NotRun
    /\ vb_log = <<>>
    /\ IdleLookups /\ IdleSums /\ IdleCheck /\ IdleEval /\ IdleChain
    /\ IdleLeBytes /\ IdleEvalOld /\ IdleAssociativity /\ IdleLayout /\ IdleBlock /\ IdleRoot /\ IdleSerial /\ IdleNew /\ IdleSha /\ IdleEvalTable /\ IdleAggregation /\ IdleVerifyCircuit

RunVerifyBlock ==
    /\ pc = "receipt"
    /\ vb_result' = VerifyBlock(vb_receipt).result
    /\ vb_log' = VerifyBlock(vb_receipt).log
    /\ pc' = "verified_block"
    /\ UNCHANGED vb_receipt
    /\ UNCHANGED vars_not_vb

NextVerifyBlock == RunVerifyBlock

SpecVerifyBlock == InitVerifyBlock /\ [][NextVerifyBlock]_vars

---------------------------------------------------------------------------
(* Claims about verify_block.                                              *)

\* C27: verify_block returns Ok for a composite block receipt only if the
\* block proof verifies against the block circuit, the cyclic verifier-key
\* check passes, and every assumption attached to the receipt is a proven
\* receipt that verifies against the root circuit; a receipt that carries an
\* unresolved assumption is never accepted.
C27_AcceptsOnlyResolved ==
    (pc = "verified_block" /\ vb_receipt.variant = "Composite" /\ vb_result = ResOk) =>
        /\ vb_receipt.proof.circuit = "block"
        /\ vb_receipt.proof.cyclic_vk = "block"
        /\ \A k \in 1 .. Len(vb_receipt.assumption_used) :
               /\ vb_receipt.assumption_used[k].tag = "Proven"
               /\ vb_receipt.assumption_used[k].inner.proof.circuit = "root"

\* What verify_block does guarantee when it returns Ok for a composite
\* receipt: the block proof verifies, the cyclic check passes, and every
\* proven assumption verifies against the root circuit; the unresolved ones
\* are logged.
AcceptsOnlyVerifiedProven ==
    (pc = "verified_block" /\ vb_receipt.variant = "Composite" /\ vb_result = ResOk) =>
        /\ vb_receipt.proof.circuit = "block"
        /\ vb_receipt.proof.cyclic_vk = "block"
        /\ \A k \in 1 .. Len(vb_receipt.assumption_used) :
               vb_receipt.assumption_used[k].tag = "Proven" =>
                   vb_receipt.assumption_used[k].inner.proof.circuit = "root"
        /\ Len(vb_log) = Cardinality({k \in 1 .. Len(vb_receipt.assumption_used) :
                                         vb_receipt.assumption_used[k].tag = "Unresolved"})

\* A composite receipt with a proven and an unresolved assumption was
\* accepted.
AcceptedWithUnresolved ==
    /\ pc = "verified_block"
    /\ vb_receipt.variant = "Composite"
    /\ vb_result = ResOk
    /\ \E k \in 1 .. Len(vb_receipt.assumption_used) :
           vb_receipt.assumption_used[k].tag = "Unresolved"
    /\ \E k \in 1 .. Len(vb_receipt.assumption_used) :
           vb_receipt.assumption_used[k].tag = "Proven"

---------------------------------------------------------------------------
(* Three root receipts aggregated in the two possible groupings.           *)

\* prove_aggregation(true, prove_aggregation(false, a, false, b), false, c).
ProveAggregationLeftFirst(a, b, c) ==
    LET Outer(ab) ==
            IF IsAbort(ab) THEN ab ELSE ProveAggregation(TRUE, ab.val, FALSE, c)
    IN  Outer(ProveAggregation(FALSE, a, FALSE, b))

\* prove_aggregation(false, a, true, prove_aggregation(false, b, false, c)).
ProveAggregationRightFirst(a, b, c) ==
    LET Outer(bc) ==
            IF IsAbort(bc) THEN bc ELSE ProveAggregation(FALSE, a, TRUE, bc.val)
    IN  Outer(ProveAggregation(FALSE, b, FALSE, c))

Chains(lhs, rhs) ==
    /\ lhs.values.roots_after = rhs.values.roots_before
    /\ lhs.values.userdata = rhs.values.userdata

\* The root receipts of the scenario: those of prove_root, and those of
\* prove_root_with_assumption with one proven assumption.
AssociativityReceipts ==
    {r \in RootReceipts :
        \/ r.variant = "Segments"
        \/ r.variant = "Composite" /\ r.assumption_used = <<"Proven">>}

InitAssociativity ==
    /\ pc = "three"
    /\ assoc_a \in AssociativityReceipts
    /\ assoc_b \in AssociativityReceipts
    /\ assoc_c \in AssociativityReceipts
    /\ \/ /\ assoc_a.variant = "Segments"
          /\ assoc_b.variant = "Segments"
          /\ assoc_c.variant = "Segments"
       \/ Chains(assoc_a, assoc_b) /\ Chains(assoc_b, assoc_c)
    /\ assoc_left_first = NotRun
    /\ assoc_right_first = NotRun
    /\ IdleLookups /\ IdleSums /\ IdleCheck /\ IdleEval /\ IdleChain
    /\ IdleLeBytes /\ IdleEvalOld /\ IdleLayout /\ IdleBlock /\ IdleRoot /\ IdleSerial /\ IdleNew /\ IdleSha /\ IdleEvalTable /\ IdleAggregation /\ IdleVerifyCircuit /\ IdleVerifyBlock

AggregateLeftFirst ==
    /\ pc = "three"
    /\ assoc_left_first' = ProveAggregationLeftFirst(assoc_a, assoc_b, assoc_c)
    /\ pc' = "left_first"
    /\ UNCHANGED <<assoc_a, assoc_b, assoc_c, assoc_right_first>>
    /\ UNCHANGED vars_not_assoc

AggregateRightFirst ==
    /\ pc = "left_first"
    /\ assoc_right_first' = ProveAggregationRightFirst(assoc_a, assoc_b, assoc_c)
    /\ pc' = "both"
    /\ UNCHANGED <<assoc_a, assoc_b, assoc_c, assoc_left_first>>
    /\ UNCHANGED vars_not_assoc

NextAssociativity == AggregateLeftFirst \/ AggregateRightFirst

SpecAssociativity == InitAssociativity /\ [][NextAssociativity]_vars

---------------------------------------------------------------------------
(* Claims about the two groupings.                                         *)

\* Whether the witness prove_aggregation assigns for lhs and rhs satisfies
\* the connections of the aggregation circuit.
SatisfiesAggregation(lhs_agg, lhs, rhs_agg, rhs) ==
    Connected(AggregationConnections(
        AggregationInputs(lhs_agg, lhs, rhs_agg, rhs, AggregatedValues(lhs, rhs))))

\* What both groupings must yield: a's roots_before, c's roots_after, the
\* common userdata, a's elf_id and c's commit.
YieldsOuter(receipt) ==
    /\ receipt.values.roots_before = assoc_a.values.roots_before
    /\ receipt.values.roots_after = assoc_c.values.roots_after
    /\ receipt.values.userdata = assoc_a.values.userdata
    /\ receipt.values.userdata = assoc_c.values.userdata
    /\ receipt.claim.elf_id = assoc_a.claim.elf_id
    /\ receipt.claim.commit = assoc_c.claim.commit
    /\ FromPublicInputs(receipt.proof.public_inputs)
           = SetPublicValueTargets(receipt.values)

\* C28: for three receipts a, b, c with a.roots_after = b.roots_before,
\* b.roots_after = c.roots_before and equal userdata, aggregating (a, b)
\* and then c, and aggregating a with the aggregation of (b, c), both
\* satisfy the equalities of the aggregation circuit at each of their two
\* steps, both return a receipt, and the two receipts have the same public
\* values and claim: a's roots_before, c's roots_after, the userdata, a's
\* elf_id and c's commit.
C28_AggregationAssociative ==
    (pc = "both" /\ Chains(assoc_a, assoc_b) /\ Chains(assoc_b, assoc_c)) =>
        /\ SatisfiesAggregation(FALSE, assoc_a, FALSE, assoc_b)
        /\ SatisfiesAggregation(FALSE, assoc_b, FALSE, assoc_c)
        /\ ~IsAbort(assoc_left_first)
        /\ ~IsAbort(assoc_right_first)
        /\ SatisfiesAggregation(TRUE, ProveAggregation(FALSE, assoc_a, FALSE, assoc_b).val,
                                FALSE, assoc_c)
        /\ SatisfiesAggregation(FALSE, assoc_a,
                                TRUE, ProveAggregation(FALSE, assoc_b, FALSE, assoc_c).val)
        /\ YieldsOuter(assoc_left_first.val)
        /\ YieldsOuter(assoc_right_first.val)
        /\ assoc_left_first.val.values = assoc_right_first.val.values
        /\ assoc_left_first.val.claim = assoc_right_first.val.claim
        /\ assoc_left_first.val.proof = assoc_right_first.val.proof

\* Witness for C28: three receipts that chain through four different roots
\* (as far as the roots of the model allow: a's roots_before, the two inner
\* roots and c's roots_after are not all equal), with different commits,
\* and both groupings returned a receipt.
C28_Witness ==
    /\ pc = "both"
    /\ Chains(assoc_a, assoc_b) /\ Chains(assoc_b, assoc_c)
    /\ ~IsAbort(assoc_left_first)
    /\ ~IsAbort(assoc_right_first)
    /\ assoc_a.values.roots_before # assoc_a.values.roots_after
    /\ assoc_b.values.roots_before # assoc_b.values.roots_after
    /\ assoc_c.values.roots_before # assoc_c.values.roots_after
    /\ assoc_a.values.roots_before # assoc_c.values.roots_after
    /\ assoc_a.claim.commit # assoc_c.claim.commit
    /\ assoc_b.claim.elf_id # assoc_a.claim.elf_id

\* Second witness shape for C28: b and c do not chain, and neither grouping
\* returned a receipt.
C28_WitnessBroken ==
    /\ pc = "both"
    /\ Chains(assoc_a, assoc_b)
    /\ ~Chains(assoc_b, assoc_c)
    /\ IsAbort(assoc_left_first)
    /\ IsAbort(assoc_right_first)

---------------------------------------------------------------------------
(* The grand-product engine: eval_cross_table_lookup_checks and            *)
(* eval_cross_table_lookup_checks_circuit.  A constraint is <<kind,        *)
(* value>>, a wire is modelled by the value it carries.                    *)

\* Column::eval_circuit: the inner product over the current-row terms.
ColumnEvalCircuit(col, v) ==
    InnerProductExtension(
        1, col.constant,
        [i \in 1 .. Len(col.linear_combination) |->
            <<v[col.linear_combination[i][1] + 1], col.linear_combination[i][2]>>])

\* CtlCheckVars of the grand-product engine.
CtlCheckVarsOld(local_z, next_z, challenges, columns, filter_column) ==
    [local_z |-> local_z, next_z |-> next_z, challenges |-> challenges,
     columns |-> columns, filter_column |-> filter_column]

\* local_filter of eval_cross_table_lookup_checks.
LocalFilterOld(lookup_vars, v, next_v) ==
    IF lookup_vars.filter_column = None THEN 1
    ELSE ColumnEvalWithNext(lookup_vars.filter_column, v, next_v)

\* select of eval_cross_table_lookup_checks.
SelectOld(lookup_vars, v, next_v) ==
    LET local_filter == LocalFilterOld(lookup_vars, v, next_v)
        combined ==
            Combine(lookup_vars.challenges,
                    [k \in 1 .. Len(lookup_vars.columns) |->
                        ColumnEvalWithNext(lookup_vars.columns[k], v, next_v)])
    IN  FSub(FAdd(FMul(local_filter, combined), 1), local_filter)

\* eval_cross_table_lookup_checks: the constraints handed to the consumer.
RECURSIVE EvalCrossTableLookupChecksOld(_, _, _)
EvalCrossTableLookupChecksOld(v, next_v, ctl_vars) ==
    IF Len(ctl_vars) = 0 THEN <<>>
    ELSE LET lookup_vars == Head(ctl_vars)
             select == SelectOld(lookup_vars, v, next_v)
         IN  <<<<"last", FSub(lookup_vars.local_z, select)>>,
               <<"transition", FSub(FMul(lookup_vars.next_z, select),
                                    lookup_vars.local_z)>>>>
             \o EvalCrossTableLookupChecksOld(v, next_v, Tail(ctl_vars))

\* local_filter of eval_cross_table_lookup_checks_circuit.
LocalFilterOldCircuit(lookup_vars, v, next_v) ==
    IF lookup_vars.filter_column = None THEN 1
    ELSE ColumnEvalCircuit(lookup_vars.filter_column, v)

\* The local fn select: filter * x + 1 - filter.
SelectCircuit(filter, x) ==
    ArithmeticExtension(1, 1, filter, x, SubExtension(1, filter))

\* select of eval_cross_table_lookup_checks_circuit.
SelectOldCircuit(lookup_vars, v, next_v) ==
    SelectCircuit(LocalFilterOldCircuit(lookup_vars, v, next_v),
                  CombineCircuit(lookup_vars.challenges,
                                 [k \in 1 .. Len(lookup_vars.columns) |->
                                     ColumnEvalWithNextCircuit(lookup_vars.columns[k],
                                                               v, next_v)]))

\* eval_cross_table_lookup_checks_circuit: the constraints handed to the
\* recursive consumer.
RECURSIVE EvalCrossTableLookupChecksOldCircuit(_, _, _)
EvalCrossTableLookupChecksOldCircuit(v, next_v, ctl_vars) ==
    IF Len(ctl_vars) = 0 THEN <<>>
    ELSE LET lookup_vars == Head(ctl_vars)
             select == SelectOldCircuit(lookup_vars, v, next_v)
         IN  <<<<"last", SubExtension(lookup_vars.local_z, select)>>,
               <<"transition", MulSubExtension(lookup_vars.next_z, select,
                                               lookup_vars.local_z)>>>>
             \o EvalCrossTableLookupChecksOldCircuit(v, next_v, Tail(ctl_vars))

\* The column lists and filter columns of the scenario.
OldColumnLists ==
    { <<ColumnSingle(0)>>,
      <<ColumnSingle(0), ColumnSingleNextRow(1)>> }

OldFilterColumns ==
    { None,
      ColumnSingle(1),
      ColumnSingleNextRow(1),
      ColumnLinearCombinationAndNextRowWithConstant(<<<<1, 1>>>>, <<<<0, 2>>>>, 1) }

OldCheckVars ==
    {CtlCheckVarsOld(lz, nz, ch, cols, f) :
        lz \in 0 .. MaxSelector, nz \in 0 .. MaxValue, ch \in EvalChallenges,
        cols \in OldColumnLists, f \in OldFilterColumns}

InitEvalOld ==
    /\ pc = "frame"
    /\ evo_vars \in {<<x>> : x \in OldCheckVars}
           \cup {<<x, CtlCheckVarsOld(1, 2, [beta |-> 2, gamma |-> 1],
                                      <<ColumnSingle(0)>>, ColumnSingle(1))>> :
                    x \in OldCheckVars}
    /\ evo_local \in EvalFrameRows
    /\ evo_next \in EvalFrameRows
    /\ evo_native = NotRun
    /\ evo_circuit = NotRun
    /\ IdleLookups /\ IdleSums /\ IdleCheck /\ IdleEval /\ IdleChain
    /\ IdleLeBytes /\ IdleLayout /\ IdleBlock /\ IdleRoot /\ IdleSerial /\ IdleNew /\ IdleSha /\ IdleEvalTable /\ IdleAggregation /\ IdleVerifyCircuit /\ IdleVerifyBlock /\ IdleAssociativity

\* The native evaluator hands its constraints to the consumer.
EvalNativeOld ==
    /\ pc = "frame"
    /\ evo_native' = EvalCrossTableLookupChecksOld(evo_local, evo_next, evo_vars)
    /\ pc' = "native_old"
    /\ UNCHANGED <<evo_vars, evo_local, evo_next, evo_circuit>>
    /\ UNCHANGED vars_not_evo

\* The circuit evaluator hands its constraints to the recursive consumer.
EvalCircuitOld ==
    /\ pc = "native_old"
    /\ evo_circuit' = EvalCrossTableLookupChecksOldCircuit(evo_local, evo_next, evo_vars)
    /\ pc' = "circuit_old"
    /\ UNCHANGED <<evo_vars, evo_local, evo_next, evo_native>>
    /\ UNCHANGED vars_not_evo

NextEvalOld == EvalNativeOld \/ EvalCircuitOld

SpecEvalOld == InitEvalOld /\ [][NextEvalOld]_vars

---------------------------------------------------------------------------
(* Claims about the evaluators of the grand-product engine.                *)

\* C29: on the same check variables and the same frame, the two evaluators
\* of the grand-product engine compute the same filter value and the same
\* select for every lookup, whatever the column list and the filter column
\* (filter columns with next-row terms included), the native select is
\* filter * combine + 1 - filter, and they emit the same constraints: for
\* every lookup Z_local - select on the last row, then
\* Z_next * select - Z_local on transitions.
C29_OldNativeCircuitAgree ==
    pc = "circuit_old" =>
        /\ \A i \in 1 .. Len(evo_vars) :
               /\ LocalFilterOldCircuit(evo_vars[i], evo_local, evo_next)
                      = LocalFilterOld(evo_vars[i], evo_local, evo_next)
               /\ SelectOldCircuit(evo_vars[i], evo_local, evo_next)
                      = SelectOld(evo_vars[i], evo_local, evo_next)
               /\ evo_native[2 * i - 1]
                      = <<"last", FSub(evo_vars[i].local_z,
                                       SelectOld(evo_vars[i], evo_local, evo_next))>>
               /\ evo_native[2 * i]
                      = <<"transition",
                          FSub(FMul(evo_vars[i].next_z,
                                    SelectOld(evo_vars[i], evo_local, evo_next)),
                               evo_vars[i].local_z)>>
        /\ evo_circuit = evo_native

\* The evaluators agree for every lookup whose filter column has no
\* next-row term or whose next-row terms evaluate to zero on the frame.
OldAgreeWithoutNextRowFilter ==
    (/\ pc = "circuit_old"
     /\ \A i \in 1 .. Len(evo_vars) :
            \/ evo_vars[i].filter_column = None
            \/ LinearSum(evo_vars[i].filter_column.next_row_linear_combination,
                         evo_next) = 0)
        => evo_circuit = evo_native

\* A filter column with a next-row term, a frame on which the native filter
\* is 1 and the circuit filter is 0, and different constraints.
OldFilterDiverges ==
    /\ pc = "circuit_old"
    /\ Len(evo_vars) = 1
    /\ evo_vars[1].filter_column = ColumnSingleNextRow(1)
    /\ LocalFilterOld(evo_vars[1], evo_local, evo_next) = 1
    /\ LocalFilterOldCircuit(evo_vars[1], evo_local, evo_next) = 0
    /\ evo_circuit # evo_native

---------------------------------------------------------------------------
(* Column::le_bytes of the two engines.                                    *)

\* Columns of the tables Column::le_bytes is evaluated on.
NumByteColumns == 3

\* F::from_canonical_u16.
FromCanonicalU16(n) == n % P

\* The first n elements of base.powers(): 1, base, base^2, ...
RECURSIVE Powers(_, _)
Powers(base, n) ==
    IF n = 0 THEN <<>>
    ELSE <<1>> \o [i \in 1 .. (n - 1) |-> FMul(base, Powers(base, n - 1)[i])]

\* Column::linear_combination_with_constant with its assertion that the
\* list is not empty.
LinearCombinationWithConstantOrAbort(v, constant) ==
    IF Len(v) = 0 THEN Panic
    ELSE Ok(ColumnLinearCombinationWithConstant(v, constant))

\* Column::linear_combination.
ColumnLinearCombination(v) == LinearCombinationWithConstantOrAbort(v, 0)

\* Column::le_bytes of the logUp engine: the cells zipped with the powers of
\* F::from_canonical_u16(256).
ColumnLeBytes(cs) ==
    ColumnLinearCombination(
        LET Zip(powers) == [i \in 1 .. Len(cs) |-> <<cs[i], powers[i]>>]
        IN  Zip(Powers(FromCanonicalU16(256), Len(cs))))

\* Column::le_bytes of the grand-product engine: the cells zipped with the
\* powers of F::from_canonical_u16(32).
ColumnLeBytesOld(cs) ==
    ColumnLinearCombination(
        LET Zip(powers) == [i \in 1 .. Len(cs) |-> <<cs[i], powers[i]>>]
        IN  Zip(Powers(FromCanonicalU16(32), Len(cs))))

\* Lists of distinct column indices, the empty list included.
ByteColumnLists ==
    {cs \in UNION {[1 .. n -> 0 .. (NumByteColumns - 1)] : n \in 0 .. NumByteColumns} :
        \A i, j \in 1 .. Len(cs) : i # j => cs[i] # cs[j]}

\* Tables of NumByteColumns columns and 1 or 2 rows.
ByteTraces ==
    UNION {[1 .. NumByteColumns -> [1 .. n -> 0 .. MaxValue]] : n \in 1 .. 2}

InitLeBytes ==
    /\ pc = "cells"
    /\ lb_cs \in ByteColumnLists
    /\ lb_trace \in ByteTraces
    /\ lb_row \in 0 .. (TraceLen(lb_trace) - 1)
    /\ lb_column = NotRun
    /\ lb_column_old = NotRun
    /\ IdleLookups /\ IdleSums /\ IdleCheck /\ IdleEval /\ IdleChain
    /\ IdleLayout /\ IdleBlock /\ IdleRoot /\ IdleSerial /\ IdleNew /\ IdleSha /\ IdleEvalTable /\ IdleAggregation /\ IdleVerifyCircuit /\ IdleVerifyBlock /\ IdleAssociativity /\ IdleEvalOld

\* A column that was built, with its value on the row.
Evaluated(built, val) ==
    IF IsAbort(built) THEN built ELSE Ok([column |-> built.val, val |-> val])

\* The logUp engine builds the column and evaluates it on the row.
RunLeBytes ==
    /\ pc = "cells"
    /\ lb_column' =
           LET built == ColumnLeBytes(lb_cs)
           IN  Evaluated(built,
                         IF IsAbort(built) THEN 0
                         ELSE ColumnEvalTable(built.val, lb_trace, lb_row))
    /\ pc' = "built"
    /\ UNCHANGED <<lb_cs, lb_trace, lb_row, lb_column_old>>
    /\ UNCHANGED vars_not_lb

\* The grand-product engine builds the column and evaluates it on the row.
RunLeBytesOld ==
    /\ pc = "built"
    /\ lb_column_old' =
           LET built == ColumnLeBytesOld(lb_cs)
           IN  Evaluated(built,
                         IF IsAbort(built) THEN 0
                         ELSE ColumnEvalTableOld(built.val, lb_trace, lb_row))
    /\ pc' = "built_old"
    /\ UNCHANGED <<lb_cs, lb_trace, lb_row, lb_column>>
    /\ UNCHANGED vars_not_lb

NextLeBytes == RunLeBytes \/ RunLeBytesOld

SpecLeBytes == InitLeBytes /\ [][NextLeBytes]_vars

---------------------------------------------------------------------------
(* Claims about Column::le_bytes.                                          *)

\* The sum over i >= k of cell[cs[i]] * base^i on the row, in the field (i
\* counts the listed cells from 0).
RECURSIVE ComposedFrom(_, _, _, _, _)
ComposedFrom(cs, trace, row, base, k) ==
    IF k >= Len(cs) THEN 0
    ELSE (trace[cs[k + 1] + 1][row + 1] * ((base ^ k) % P)
          + ComposedFrom(cs, trace, row, base, k + 1)) % P

\* The logUp engine's column is the base-256 composition.
LeBytesComposes ==
    (pc \in {"built", "built_old"} /\ ~IsAbort(lb_column)) =>
        lb_column.val.val = ComposedFrom(lb_cs, lb_trace, lb_row, 256, 0)

\* The grand-product engine's column is the base-32 composition.
LeBytesOldComposesBase32 ==
    (pc = "built_old" /\ ~IsAbort(lb_column_old)) =>
        lb_column_old.val.val = ComposedFrom(lb_cs, lb_trace, lb_row, 32, 0)

\* C30: in both engines Column::le_bytes(cs) of a list of cells evaluates, on
\* every row, to the sum over i of cell[cs[i]] * 256^i.
C30_LeBytesBase256 ==
    (pc = "built_old" /\ Len(lb_cs) > 0) =>
        /\ ~IsAbort(lb_column)
        /\ ~IsAbort(lb_column_old)
        /\ lb_column.val.val = ComposedFrom(lb_cs, lb_trace, lb_row, 256, 0)
        /\ lb_column_old.val.val = ComposedFrom(lb_cs, lb_trace, lb_row, 256, 0)

\* Two cells whose second is nonzero on the row: the two engines give
\* different values.
LeBytesEnginesDiffer ==
    /\ pc = "built_old"
    /\ Len(lb_cs) = 2
    /\ lb_trace[lb_cs[2] + 1][lb_row + 1] # 0
    /\ ~IsAbort(lb_column)
    /\ ~IsAbort(lb_column_old)
    /\ lb_column.val.val # lb_column_old.val.val

===========================================================================
